---- MODULE Spec2Model ----
(***************************************************************************)
(* DCC Converter: the mapping engine (mapping-engine.js, kept here as      *)
(* src/unnamed/part_000, second copy from line 265 on) and the DCC XML     *)
(* generator (src/js/dcc-xml-generator.js).                                *)
(*                                                                         *)
(* JavaScript values are tagged records:                                   *)
(*   [t |-> "undef"], [t |-> "null"], [t |-> "bool", v |-> BOOLEAN],       *)
(*   [t |-> "nan"], [t |-> "num", n |-> Int, d |-> Nat]  (n / 10^d),       *)
(*   [t |-> "str", v |-> sequence of characters or path tokens],           *)
(*   [t |-> "obj", v |-> function from keys to values],                    *)
(*   [t |-> "arr", v |-> sequence, p |-> named properties],                *)
(*   [t |-> "throw"] a raised exception (the completion of an operation).  *)
(* A string of data is a sequence of one-character strings, so that trim,  *)
(* parseFloat, the date pattern, escaping and template replacement work on *)
(* characters.                                                             *)
(***************************************************************************)
EXTENDS Integers, Sequences, FiniteSets, TLC

VARIABLES
    pc,          \* position of convertXmlToDccJson: "idle", "loop", "done", "threw"
    docIx,       \* index of the source document being converted (0: none)
    profile,     \* profile.mappings as far as the loop has read it (indexes into Rules)
    result,      \* the accumulating DCC-JSON object of the conversion
    resultNs,    \* the same conversion run on the namespaced twin of the document
    failed,      \* indexes of the rules whose error was caught (console.warn)
    gpc,         \* position of generateDccXml / validateData
    data,        \* index of the DCC-JSON input of the call (0: none)
    lines,       \* const lines = [] of generateDccXml
    warnings,    \* const warnings = [] of generateDccXml
    dataWarnings,\* the list validateData returned for data (empty before it is called)
    returned,    \* what the calls of generateDccXml returned: [input, xml, warnings]
    calls,       \* number of generator calls started
    stored,      \* localStorage['dcc-mapping-profiles']: the list of saved profiles
    issued,      \* number of ids generateId has returned
    now,         \* the clock behind new Date() / Date.now(), in operations
    lastOp,      \* the last operation on the store and its argument
    before,      \* the stored list as the last operation found it
    xmlFile,     \* let xmlFile of app.js (0: null, else an index into XmlFiles)
    xmlContent,  \* let xmlContent of app.js (0: '', else the text of that file)
    selectedProfileId, \* let selectedProfileId of app.js (0: '')
    select,      \* value of the element #xml-profile-select (0: '')
    convertDisabled,   \* disabled of the button #xml-btn-convert
    reading,     \* the FileReaders of handleXmlFile that have not fired onload yet
    clicks       \* number of user actions in XML Convert mode

vars == <<pc, docIx, profile, result, resultNs, failed,
          gpc, data, lines, warnings, dataWarnings, returned, calls,
          stored, issued, now, lastOp, before,
          xmlFile, xmlContent, selectedProfileId, select, convertDisabled,
          reading, clicks>>

engineVars == <<pc, docIx, profile, result, resultNs, failed>>
genVars == <<gpc, data, lines, warnings, dataWarnings, returned, calls>>
storeVars == <<stored, issued, now, lastOp, before>>
appVars == <<xmlFile, xmlContent, selectedProfileId, select, convertDisabled,
             reading, clicks>>

---------------------------------------------------------------------------
(* JavaScript values *)

Undef == [t |-> "undef"]
Null == [t |-> "null"]
NaN == [t |-> "nan"]
Throw == [t |-> "throw"]
Bool(b) == [t |-> "bool", v |-> b]
Num(n, d) == [t |-> "num", n |-> n, d |-> d]
Int0(n) == Num(n, 0)
Str(s) == [t |-> "str", v |-> s]
Obj(f) == [t |-> "obj", v |-> f]
Arr(s) == [t |-> "arr", v |-> s, p |-> <<>>]
EmptyObj == Obj(<<>>)

IsThrow(x) == x.t = "throw"
\* x == null (loose): null or undefined
IsNullish(x) == x.t \in {"undef", "null"}

\* ToBoolean
Truthy(x) ==
    CASE x.t \in {"undef", "null", "nan"} -> FALSE
      [] x.t = "bool" -> x.v
      [] x.t = "num" -> x.n # 0
      [] x.t = "str" -> x.v # <<>>
      [] OTHER -> TRUE

\* a || b
Or(a, b) == IF Truthy(a) THEN a ELSE b
\* a ?? b
Coalesce(a, b) == IF IsNullish(a) THEN b ELSE a

\* typeof x === 'object'
TypeofObject(x) == x.t \in {"obj", "arr", "null"}

RECURSIVE JoinStr(_)
\* the characters of a string as one key
JoinStr(s) == IF s = <<>> THEN "" ELSE Head(s) \o JoinStr(Tail(s))

\* x[key] / x.key ; on null or undefined a TypeError
Prop(x, key) ==
    CASE x.t \in {"undef", "null"} -> Throw
      [] x.t = "obj" -> IF key \in DOMAIN x.v THEN x.v[key] ELSE Undef
      [] x.t = "arr" -> IF key = "length" THEN Int0(Len(x.v))
                        ELSE IF key \in DOMAIN x.p THEN x.p[key] ELSE Undef
      [] x.t = "str" -> IF key = "length" THEN Int0(Len(x.v)) ELSE Undef
      [] OTHER -> Undef

\* x?.key
OptProp(x, key) == IF IsNullish(x) THEN Undef ELSE Prop(x, key)

\* obj[key] = value on an object or an array
PutProp(x, key, value) ==
    IF x.t = "arr"
    THEN [x EXCEPT !.p = [k \in DOMAIN x.p \cup {key} |->
                            IF k = key THEN value ELSE x.p[k]]]
    ELSE Obj([k \in DOMAIN x.v \cup {key} |-> IF k = key THEN value ELSE x.v[k]])

---------------------------------------------------------------------------
(* Characters and strings *)

Digits == <<"0", "1", "2", "3", "4", "5", "6", "7", "8", "9">>
IsDigit(c) == \E i \in 1..10 : Digits[i] = c
DigitVal(c) == (CHOOSE i \in 1..10 : Digits[i] = c) - 1
IsSpace(c) == c \in {" ", "\n", "\t"}

RECURSIVE TrimLeft(_)
TrimLeft(s) == IF s # <<>> /\ IsSpace(Head(s)) THEN TrimLeft(Tail(s)) ELSE s

RECURSIVE TrimRight(_)
TrimRight(s) ==
    IF s # <<>> /\ IsSpace(s[Len(s)]) THEN TrimRight(SubSeq(s, 1, Len(s) - 1)) ELSE s

\* String.prototype.trim
Trim(s) == TrimRight(TrimLeft(s))

Upper == <<"A", "B", "C", "K", "N", "O">>
Lower == <<"a", "b", "c", "k", "n", "o">>
LowerChar(c) ==
    IF \E i \in 1..Len(Upper) : Upper[i] = c
    THEN Lower[CHOOSE i \in 1..Len(Upper) : Upper[i] = c]
    ELSE c
\* String.prototype.toLowerCase (on the letters of the model's alphabet)
ToLowerCase(s) == [i \in 1..Len(s) |-> LowerChar(s[i])]

RECURSIVE Pow10(_)
Pow10(k) == IF k = 0 THEN 1 ELSE 10 * Pow10(k - 1)

RECURSIVE DigitRun(_)
\* the longest prefix of digits
DigitRun(s) == IF s # <<>> /\ IsDigit(Head(s)) THEN <<Head(s)>> \o DigitRun(Tail(s)) ELSE <<>>

RECURSIVE DigitsValue(_)
DigitsValue(ds) ==
    IF ds = <<>> THEN 0 ELSE 10 * DigitsValue(SubSeq(ds, 1, Len(ds) - 1)) + DigitVal(ds[Len(ds)])

RECURSIVE Normalize(_, _)
\* n / 10^d without trailing zeros of the fraction
Normalize(n, d) == IF d > 0 /\ n % 10 = 0 THEN Normalize(n \div 10, d - 1) ELSE Num(n, d)

Drop(s, k) == SubSeq(s, k + 1, Len(s))

\* parseInt(raw, 10): leading white space, a sign, decimal digits; NaN without digits
ParseInt(raw) ==
    LET s0 == TrimLeft(raw)
        neg == s0 # <<>> /\ Head(s0) = "-"
        s1 == IF s0 # <<>> /\ Head(s0) \in {"-", "+"} THEN Tail(s0) ELSE s0
        ds == DigitRun(s1)
    IN IF ds = <<>> THEN NaN
       ELSE Int0(IF neg THEN 0 - DigitsValue(ds) ELSE DigitsValue(ds))

\* the text starts with a minus sign
IsNegative(s0) == s0 # <<>> /\ Head(s0) = "-"

\* the text after its sign
Unsigned(s0) == IF s0 # <<>> /\ Head(s0) \in {"-", "+"} THEN Tail(s0) ELSE s0

\* the digits of the fraction that starts s2
FractionOf(s2) == IF s2 # <<>> /\ Head(s2) = "." THEN DigitRun(Tail(s2)) ELSE <<>>

Signed(neg, mag) == IF neg THEN 0 - mag ELSE mag

\* the number with sign neg, integer digits ip and fraction digits fp
FloatOf(neg, ip, fp) ==
    IF ip = <<>> /\ fp = <<>> THEN NaN
    ELSE Normalize(Signed(neg, DigitsValue(ip) * Pow10(Len(fp)) + DigitsValue(fp)), Len(fp))

FloatFrom(neg, s1) == FloatOf(neg, DigitRun(s1), FractionOf(Drop(s1, Len(DigitRun(s1)))))

\* parseFloat(raw): the longest prefix that is a decimal literal (sign, digits,
\* fraction); NaN when there is none.  Exponents and Infinity are outside the
\* alphabet of the model's documents.
ParseFloat(raw) == FloatFrom(IsNegative(TrimLeft(raw)), Unsigned(TrimLeft(raw)))

RECURSIVE NatToStr(_)
NatToStr(n) == IF n < 10 THEN <<Digits[n + 1]>> ELSE NatToStr(n \div 10) \o <<Digits[(n % 10) + 1]>>

RECURSIVE PadLeft(_, _)
PadLeft(s, k) == IF Len(s) >= k THEN s ELSE PadLeft(<<"0">> \o s, k)

\* Number.prototype.toString for n / 10^d
NumToStr(x) ==
    LET mag == IF x.n < 0 THEN 0 - x.n ELSE x.n
        ip == NatToStr(mag \div Pow10(x.d))
        fp == IF x.d = 0 THEN <<>> ELSE <<".">> \o PadLeft(NatToStr(mag % Pow10(x.d)), x.d)
    IN (IF x.n < 0 THEN <<"-">> ELSE <<>>) \o ip \o fp

\* Math.abs
Abs(x) == IF x.n < 0 THEN Num(0 - x.n, x.d) ELSE x


---------------------------------------------------------------------------
(* The source document: the DOM tree built by DOMParser.                   *)
(* A document is [ok, nodes]; ok is FALSE when the text was malformed (the *)
(* parsed document then holds a parsererror element).  nodes[i] is the     *)
(* i-th element in document order (preorder), parent 0 is the document     *)
(* node; ns is the element's namespace URI ("" for none), attrs its        *)
(* attributes, text its own character data.                                *)

DocNode == [k |-> "doc", id |-> 0, n |-> ""]
El(i) == [k |-> "el", id |-> i, n |-> ""]
AttrNode(i, a) == [k |-> "attr", id |-> i, n |-> a]

\* doc.documentElement
documentElement(d) == El(1)

Elements(d) == {El(i) : i \in 1..Len(d.nodes)}

ParentOf(d, r) ==
    CASE r.k = "attr" -> {El(r.id)}
      [] r.k = "el" -> IF d.nodes[r.id].parent = 0 THEN {DocNode}
                       ELSE {El(d.nodes[r.id].parent)}
      [] OTHER -> {}

ChildElements(d, r) ==
    CASE r.k = "doc" -> {El(i) : i \in {j \in 1..Len(d.nodes) : d.nodes[j].parent = 0}}
      [] r.k = "el" -> {El(i) : i \in {j \in 1..Len(d.nodes) : d.nodes[j].parent = r.id}}
      [] OTHER -> {}

RECURSIVE IsAncestor(_, _, _)
\* element a is a proper ancestor of element i
IsAncestor(d, a, i) ==
    LET p == d.nodes[i].parent
    IN p # 0 /\ (p = a \/ IsAncestor(d, a, p))

DescendantsOrSelf(d, r) ==
    CASE r.k = "doc" -> {DocNode} \cup Elements(d)
      [] r.k = "el" -> {El(i) : i \in {j \in 1..Len(d.nodes) : j = r.id \/ IsAncestor(d, r.id, j)}}
      [] OTHER -> {r}

\* document order of two nodes of a node-set
Before(a, b) == a.id < b.id \/ (a.id = b.id /\ a.k = "el" /\ b.k = "attr")

RECURSIVE DocumentOrder(_)
\* a node-set as the sequence of its nodes in document order
DocumentOrder(S) ==
    IF S = {} THEN <<>>
    ELSE LET first == CHOOSE a \in S : \A b \in S \ {a} : Before(a, b)
         IN <<first>> \o DocumentOrder(S \ {first})

RECURSIVE ConcatText(_, _)
ConcatText(d, ids) ==
    IF ids = <<>> THEN <<>> ELSE d.nodes[Head(ids).id].text \o ConcatText(d, Tail(ids))

\* the DOM's textContent / XPath string-value of a node
StringValue(d, r) ==
    CASE r.k = "el" -> Str(ConcatText(d, DocumentOrder(DescendantsOrSelf(d, r))))
      [] r.k = "attr" -> Str(d.nodes[r.id].attrs[r.n])
      [] OTHER -> Null

\* el.getAttribute(name): only elements have the method
getAttribute(d, r, name) ==
    IF r.k # "el" THEN Throw
    ELSE IF name \in DOMAIN d.nodes[r.id].attrs THEN Str(d.nodes[r.id].attrs[name])
    ELSE Null

\* tc?.trim() || null
TrimOrNull(tc) ==
    IF IsNullish(tc) THEN Null
    ELSE IF Trim(tc.v) = <<>> THEN Null ELSE Str(Trim(tc.v))

\* textContent(el): el.textContent?.trim() || null
textContent(d, r) == TrimOrNull(StringValue(d, r))

---------------------------------------------------------------------------
(* Paths.  A path string is a sequence of tokens [k, n, v]:                *)
(*   name n | "/" | "@n" | "." | ".." | [@n='v'] | [n='v'] | "[" (an       *)
(*   unbalanced bracket).                                                  *)

PName(n) == [k |-> "name", n |-> n, v |-> ""]
Slash == [k |-> "slash", n |-> "/", v |-> ""]
At(n) == [k |-> "at", n |-> n, v |-> ""]
Dot == [k |-> "dot", n |-> ".", v |-> ""]
DotDot == [k |-> "dotdot", n |-> "..", v |-> ""]
PredAttr(n, v) == [k |-> "predAttr", n |-> n, v |-> v]
PredChild(n, v) == [k |-> "predChild", n |-> n, v |-> v]
PredBad == [k |-> "predBad", n |-> "[", v |-> ""]

IsPred(tok) == tok.k \in {"predAttr", "predChild", "predBad"}

TokText(tok) == IF tok.k = "at" THEN "@" \o tok.n ELSE tok.n

RECURSIVE TokensText(_)
TokensText(toks) == IF toks = <<>> THEN "" ELSE TokText(Head(toks)) \o TokensText(Tail(toks))

RECURSIVE SplitSlash(_, _)
\* path.split('/'): cur is the step being read
SplitSlash(toks, cur) ==
    IF toks = <<>> THEN <<cur>>
    ELSE IF Head(toks).k = "slash" THEN <<cur>> \o SplitSlash(Tail(toks), <<>>)
    ELSE SplitSlash(Tail(toks), Append(cur, Head(toks)))

RECURSIVE NamePart(_)
\* the group ([^[]+) of the step pattern
NamePart(step) ==
    IF step = <<>> \/ IsPred(Head(step)) THEN <<>> ELSE <<Head(step)>> \o NamePart(Tail(step))

XStep(ax, n, preds) == [ax |-> ax, n |-> n, preds |-> preds]

\* every name step a child step
ChildAxis(i, fromRoot) == "child"

\* the axis of the name step steps[i] (i from 1): descendant-or-self for the
\* first step of a path from the root element, else child
FirstAxis(i, fromRoot) == IF i = 1 /\ fromRoot THEN "descendant-or-self" ELSE "child"

\* one step of toXPath's loop: the XPath step pushed for steps[i] (i from 1),
\* <<>> when the step is skipped
toXPathStep(step, i, fromRoot) ==
    IF step = <<>> /\ i = 1 THEN <<>>
    ELSE IF step = <<DotDot>> THEN <<XStep("parent", "", <<>>)>>
    ELSE IF step = <<Dot>> THEN <<XStep("self", "", <<>>)>>
    ELSE IF step # <<>> /\ Head(step).k = "at"
         THEN <<XStep("attr", TokensText(<<[Head(step) EXCEPT !.k = "name"]>>), Tail(step))>>
    ELSE IF NamePart(step) = <<>> THEN <<XStep("raw", TokensText(step), step)>>
    ELSE LET name == TokensText(NamePart(step))
             predicate == Drop(step, Len(NamePart(step)))
         IN <<XStep(FirstAxis(i, fromRoot), name, predicate)>>

RECURSIVE toXPathSteps(_, _, _)
toXPathSteps(steps, i, fromRoot) ==
    IF i > Len(steps) THEN <<>>
    ELSE toXPathStep(steps[i], i, fromRoot) \o toXPathSteps(steps, i + 1, fromRoot)

\* toXPath(path, fromRoot): [threw, steps], the steps of the XPath expression
\* (joined by '/'); threw when path is no string (path.split is not a function)
toXPath(path, fromRoot) ==
    IF ~Truthy(path) \/ path = Str(<<Dot>>)
    THEN [threw |-> FALSE, steps |-> <<XStep("self", "", <<>>)>>]
    ELSE IF path.t # "str" THEN [threw |-> TRUE, steps |-> <<>>]
    ELSE [threw |-> FALSE, steps |-> toXPathSteps(SplitSlash(path.v, <<>>), 1, fromRoot)]

---------------------------------------------------------------------------
(* doc.evaluate: XPath 1.0 with a null namespace resolver, on the steps    *)
(* that toXPath writes.                                                    *)

\* a predicate of a step holds of node r.  An unprefixed name test in a
\* predicate selects elements in no namespace only.
PredHolds(d, r, p) ==
    CASE p.k = "predAttr" ->
            r.k = "el" /\ p.n \in DOMAIN d.nodes[r.id].attrs
                       /\ JoinStr(d.nodes[r.id].attrs[p.n]) = p.v
      [] p.k = "predChild" ->
            \E c \in ChildElements(d, r) :
                /\ d.nodes[c.id].name = p.n
                /\ d.nodes[c.id].ns = ""
                /\ JoinStr(StringValue(d, c).v) = p.v
      [] OTHER -> FALSE

PredsHold(d, r, preds) == \A i \in 1..Len(preds) : PredHolds(d, r, preds[i])

\* *[local-name()='name']
LocalNameIs(d, r, name) == r.k = "el" /\ d.nodes[r.id].name = name

\* the nodes one step selects from context node r
StepNodes(d, r, xs) ==
    CASE xs.ax = "self" -> {r}
      [] xs.ax = "parent" -> ParentOf(d, r)
      [] xs.ax = "attr" ->
            IF r.k = "el" /\ xs.n \in DOMAIN d.nodes[r.id].attrs
               /\ PredsHold(d, AttrNode(r.id, xs.n), xs.preds)
            THEN {AttrNode(r.id, xs.n)} ELSE {}
      [] xs.ax = "child" ->
            {c \in ChildElements(d, r) : LocalNameIs(d, c, xs.n) /\ PredsHold(d, c, xs.preds)}
      [] xs.ax = "descendant-or-self" ->
            {c \in DescendantsOrSelf(d, r) : LocalNameIs(d, c, xs.n) /\ PredsHold(d, c, xs.preds)}
      [] xs.ax = "descendant-or-self-node" -> DescendantsOrSelf(d, r)
      [] OTHER -> {}

\* the expression is no XPath: a raw step that is not an empty step between
\* two others ('//'), or an unbalanced predicate
SyntaxError(xsteps) ==
    \/ xsteps = <<>>
    \/ \E i \in 1..Len(xsteps) :
         \/ xsteps[i].ax = "raw" /\ (xsteps[i].n # "" \/ i = Len(xsteps))
         \/ \E j \in 1..Len(xsteps[i].preds) : xsteps[i].preds[j].k = "predBad"

RECURSIVE EvalSteps(_, _, _, _)
EvalSteps(d, S, xsteps, i) ==
    IF i > Len(xsteps) THEN S
    ELSE LET xs == xsteps[i]
             T == IF xs.ax = "raw"
                  THEN (IF i = 1 THEN {DocNode}
                        ELSE UNION {DescendantsOrSelf(d, r) : r \in S})
                  ELSE UNION {StepNodes(d, r, xs) : r \in S}
         IN EvalSteps(d, T, xsteps, i + 1)

\* doc.evaluate(xpath, context, null, type, null): [err, nodes]
evaluate(d, xsteps, context) ==
    IF SyntaxError(xsteps) THEN [err |-> TRUE, nodes |-> {}]
    ELSE [err |-> FALSE, nodes |-> EvalSteps(d, {context}, xsteps, 1)]

\* an iterator that yields the node-set in reverse document order
ReverseNodeIterator(S) ==
    LET o == DocumentOrder(S) IN [i \in 1..Len(o) |-> o[Len(o) + 1 - i]]

\* XPathResult.ORDERED_NODE_ITERATOR_TYPE: the node-set in document order
OrderedNodeIterator(S) == DocumentOrder(S)

\* the loop over iterateNext() on the result r of doc.evaluate; the catch
\* leaves the list empty
iterateNext(r) == IF r.err THEN <<>> ELSE OrderedNodeIterator(r.nodes)

\* the body of findElements on the expression xpath that toXPath wrote
findElementsBy(d, context, xpath) ==
    IF xpath.threw THEN [threw |-> TRUE, els |-> <<>>]
    ELSE [threw |-> FALSE, els |-> iterateNext(evaluate(d, xpath.steps, context))]

\* findElements(doc, context, path): [threw, els]
findElements(d, context, path) ==
    findElementsBy(d, context, toXPath(path, context = documentElement(d)))

\* result.singleNodeValue of the result r of doc.evaluate, a set of at most
\* one node (empty for null); the catch returns null
singleNodeValue(r) == IF r.err \/ r.nodes = {} THEN {} ELSE {DocumentOrder(r.nodes)[1]}

\* the body of findFirst on the expression xpath that toXPath wrote
findFirstBy(d, context, xpath) ==
    IF xpath.threw THEN [threw |-> TRUE, el |-> {}]
    ELSE [threw |-> FALSE, el |-> singleNodeValue(evaluate(d, xpath.steps, context))]

\* findFirst(doc, context, path): [threw, el]
findFirst(d, context, path) ==
    findFirstBy(d, context, toXPath(path, context = documentElement(d)))

---------------------------------------------------------------------------
(* Mapping rules.  A rule is a record holding the fields the profile gives *)
(* it: type (a TLA+ string), target (a string of the tokens name, "." and  *)
(* "[]"), source (a path string, or another JSON value), sources (a        *)
(* sequence of them), fields (a sequence of rules), separator, template,   *)
(* map, value.                                                             *)

Field(rule, name) == IF name \in DOMAIN rule THEN rule[name] ELSE Undef
TypeOf(rule) == IF "type" \in DOMAIN rule THEN rule.type ELSE ""
FieldsOf(rule) == IF "fields" \in DOMAIN rule THEN rule.fields ELSE <<>>
SourcesOf(rule) == IF "sources" \in DOMAIN rule THEN rule.sources ELSE <<>>

\* String(target) as a property key
TargetKey(target) == IF target.t = "str" THEN JoinStr(target.v) ELSE "undefined"

RECURSIVE RemoveFirst(_, _)
RemoveFirst(toks, x) ==
    IF toks = <<>> THEN <<>>
    ELSE IF Head(toks) = x THEN Tail(toks)
    ELSE <<Head(toks)>> \o RemoveFirst(Tail(toks), x)

\* target.replace('[]', ''): Throw when the rule has no target
DeBracket(target) ==
    IF target.t # "str" THEN Throw ELSE Str(RemoveFirst(target.v, "[]"))

RECURSIVE SplitDot(_, _)
\* path.split('.')
SplitDot(toks, cur) ==
    IF toks = <<>> THEN <<cur>>
    ELSE IF Head(toks) = "." THEN <<cur>> \o SplitDot(Tail(toks), "")
    ELSE SplitDot(Tail(toks), cur \o Head(toks))

\* every step of the path starts a new object
AlwaysNew(has) == EmptyObj

\* if (!(key in current) || typeof current[key] !== 'object') current[key] = {}:
\* the object the loop goes on with, has being current[key]
KeptOrNew(has) == IF has.t = "undef" \/ ~TypeofObject(has) THEN EmptyObj ELSE has

RECURSIVE setNestedAt(_, _, _, _)
\* the loop and the final assignment of setNested from keys[i] on: [threw, obj]
setNestedAt(current, keys, i, value) ==
    IF current.t = "null" THEN [threw |-> TRUE, obj |-> current]
    ELSE IF i = Len(keys) THEN [threw |-> FALSE, obj |-> PutProp(current, keys[i], value)]
    ELSE LET key == keys[i]
             r == setNestedAt(KeptOrNew(Prop(current, key)), keys, i + 1, value)
         IN [threw |-> r.threw, obj |-> PutProp(current, key, r.obj)]

\* setNested(obj, path, value): [threw, obj]; obj is the object as the call
\* leaves it, also when it throws
setNested(obj, path, value) ==
    IF path.t # "str" THEN [threw |-> TRUE, obj |-> obj]
    ELSE setNestedAt(obj, SplitDot(path.v, ""), 1, value)

---------------------------------------------------------------------------
(* Extraction *)

\* the index of the first "/@" of a path, 0 if none
FirstSlashAt(toks) ==
    LET I == {i \in 1..(Len(toks) - 1) : toks[i].k = "slash" /\ toks[i + 1].k = "at"}
    IN IF I = {} THEN 0 ELSE CHOOSE i \in I : \A j \in I : i <= j

\* the attribute named by source.split('/@')[1]: the text up to the next "/@"
SecondPart(toks) ==
    LET i == FirstSlashAt(toks)
        rest == Drop(toks, i + 1)
        j == FirstSlashAt(rest)
    IN TokensText(<<[toks[i + 1] EXCEPT !.k = "name"]>>)
         \o TokensText(IF j = 0 THEN rest ELSE SubSeq(rest, 1, j - 1))

\* the path resolveRawValue hands to findFirst: parts[0] of a source that
\* holds "/@", else the source
ElementPath(source) ==
    IF FirstSlashAt(source.v) # 0
    THEN Str(SubSeq(source.v, 1, FirstSlashAt(source.v) - 1))
    ELSE source

\* what resolveRawValue reads of the element el (a set, empty for null): the
\* attribute parts[1] of a source that holds "/@", else the text
ReadElement(d, el, source) ==
    IF el = {} THEN Null
    ELSE IF FirstSlashAt(source.v) # 0
         THEN getAttribute(d, CHOOSE e \in el : TRUE, SecondPart(source.v))
    ELSE textContent(d, CHOOSE e \in el : TRUE)

\* resolveRawValue(doc, context, source): a string, null or Throw.  Only
\* parts[0] can be '.' where the element is looked up: the source '.' has
\* returned before.
resolveRawValue(d, context, source) ==
    IF ~Truthy(source) THEN Null
    ELSE IF source.t # "str" THEN Throw
    ELSE IF source.v = <<Dot>> THEN textContent(d, context)
    ELSE IF Head(source.v).k = "at"
         THEN getAttribute(d, context, TokensText(<<[Head(source.v) EXCEPT !.k = "name"]>>)
                                          \o TokensText(Tail(source.v)))
    ELSE ReadElement(d, IF ElementPath(source) = Str(<<Dot>>) THEN {context}
                        ELSE findFirst(d, context, ElementPath(source)).el,
                     source)

RECURSIVE JoinParts(_, _)
\* parts.join(separator)
JoinParts(parts, sep) ==
    IF parts = <<>> THEN <<>>
    ELSE IF Len(parts) = 1 THEN parts[1]
    ELSE parts[1] \o sep \o JoinParts(Tail(parts), sep)

\* if (val) parts.push(val), before the parts that follow: the parts, or Throw
PushPart(raw, rest) ==
    IF IsThrow(raw) \/ IsThrow(rest) THEN Throw
    ELSE IF Truthy(raw) THEN Arr(<<raw.v>> \o rest.v) ELSE rest

RECURSIVE ConcatParts(_, _, _, _)
\* the loop of extractConcat from sources[i] on
ConcatParts(d, context, sources, i) ==
    IF i > Len(sources) THEN Arr(<<>>)
    ELSE PushPart(resolveRawValue(d, context, sources[i]),
                  ConcatParts(d, context, sources, i + 1))

\* parts.length > 0 ? parts.join(separator) : null
JoinOrNull(parts, separator) ==
    IF IsThrow(parts) THEN Throw
    ELSE IF Len(parts.v) > 0 THEN Str(JoinParts(parts.v, separator.v)) ELSE Null

extractConcat(d, context, field) ==
    JoinOrNull(ConcatParts(d, context, SourcesOf(field), 1),
               Coalesce(Field(field, "separator"), Str(<<" ">>)))

RECURSIVE Expand(_, _)
\* the replacement text of String.prototype.replace: "$$" is "$", "$&" the match
Expand(rep, matched) ==
    IF rep = <<>> THEN <<>>
    ELSE IF Len(rep) >= 2 /\ rep[1] = "$" /\ rep[2] = "$" THEN <<"$">> \o Expand(Drop(rep, 2), matched)
    ELSE IF Len(rep) >= 2 /\ rep[1] = "$" /\ rep[2] = "&" THEN matched \o Expand(Drop(rep, 2), matched)
    ELSE <<Head(rep)>> \o Expand(Tail(rep), matched)

RECURSIVE ReplaceAll(_, _, _)
\* s.replace(new RegExp(pat, 'g'), rep) for a literal pattern
ReplaceAll(s, pat, rep) ==
    IF Len(s) < Len(pat) THEN s
    ELSE IF SubSeq(s, 1, Len(pat)) = pat
         THEN Expand(rep, pat) \o ReplaceAll(Drop(s, Len(pat)), pat, rep)
    ELSE <<Head(s)>> \o ReplaceAll(Tail(s), pat, rep)

\* resolveRawValue(...) || '', as characters
OrEmpty(r) == IF Truthy(r) THEN r.v ELSE <<>>

RECURSIVE TemplateLoop(_, _, _, _, _, _)

\* one iteration of the loop of extractTemplate, r being the raw value of
\* sources[i], and the iterations that follow
TemplateStep(d, context, sources, i, res, hasValue, r) ==
    IF IsThrow(r) THEN [threw |-> TRUE, result |-> res, hasValue |-> hasValue]
    ELSE TemplateLoop(d, context, sources, i + 1,
                      ReplaceAll(res, <<"{">> \o NatToStr(i - 1) \o <<"}">>, OrEmpty(r)),
                      hasValue \/ Truthy(r))

\* the loop of extractTemplate from sources[i] on (i from 1, placeholder {i-1}):
\* [threw, result, hasValue]
TemplateLoop(d, context, sources, i, res, hasValue) ==
    IF i > Len(sources) THEN [threw |-> FALSE, result |-> res, hasValue |-> hasValue]
    ELSE TemplateStep(d, context, sources, i, res, hasValue,
                      resolveRawValue(d, context, sources[i]))

\* hasValue ? result.trim() : null
TrimmedResult(r) ==
    IF r.threw THEN Throw
    ELSE IF r.hasValue THEN Str(Trim(r.result)) ELSE Null

extractTemplate(d, context, field) ==
    TrimmedResult(TemplateLoop(d, context, SourcesOf(field), 1,
                               Or(Field(field, "template"), Str(<<>>)).v, FALSE))

\* the properties an object inherits from Object.prototype
ObjectPrototype ==
    {"constructor", "hasOwnProperty", "isPrototypeOf", "propertyIsEnumerable",
     "toLocaleString", "toString", "valueOf", "__proto__",
     "__defineGetter__", "__defineSetter__", "__lookupGetter__", "__lookupSetter__"}

\* the value of an inherited property: a function (for __proto__ the
\* prototype object), no string and not null
Inherited(key) == [t |-> "fn", name |-> key]

\* map[key] of the lookup table, an object of the profile: its own entry,
\* else the property of that name it inherits, else undefined
MapGet(map, key) ==
    IF map.t = "obj" /\ key \notin DOMAIN map.v /\ key \in ObjectPrototype
    THEN Inherited(key)
    ELSE Prop(map, key)

\* if (raw == null) return null;
\* return map[raw] ?? map[raw.toLowerCase()] ?? map['*'] ?? raw
LookupIn(map, raw) ==
    IF IsThrow(raw) THEN Throw
    ELSE IF IsNullish(raw) THEN Null
    ELSE Coalesce(MapGet(map, JoinStr(raw.v)),
           Coalesce(MapGet(map, JoinStr(ToLowerCase(raw.v))),
             Coalesce(MapGet(map, "*"), raw)))

extractLookup(d, context, field) ==
    LookupIn(Or(Field(field, "map"), EmptyObj),
             resolveRawValue(d, context, Field(field, "source")))

\* if (val) return val, before the sources that follow
FirstTruthy(raw, rest) ==
    IF IsThrow(raw) THEN Throw
    ELSE IF Truthy(raw) THEN raw
    ELSE rest

RECURSIVE FirstOfLoop(_, _, _, _)
FirstOfLoop(d, context, sources, i) ==
    IF i > Len(sources) THEN Null
    ELSE FirstTruthy(resolveRawValue(d, context, sources[i]),
                     FirstOfLoop(d, context, sources, i + 1))

extractFirstOf(d, context, field) == FirstOfLoop(d, context, SourcesOf(field), 1)

\* the two attributes read in the other order
extractAsLeftAsFound(d, el) ==
    LET isAsFound == getAttribute(d, el, "isAsFound")
        isAsLeft == getAttribute(d, el, "isAsLeft")
    IN IF IsThrow(isAsFound) THEN Throw
       ELSE IF isAsLeft = Str(<<"t", "r", "u", "e">>) THEN Str(<<"a", "s", "L", "e", "f", "t">>)
       ELSE IF isAsFound = Str(<<"t", "r", "u", "e">>) THEN Str(<<"a", "s", "F", "o", "u", "n", "d">>)
       ELSE Null

extractAsFoundAsLeft(d, el) ==
    LET isAsFound == getAttribute(d, el, "isAsFound")
        isAsLeft == getAttribute(d, el, "isAsLeft")
    IN IF IsThrow(isAsFound) THEN Throw
       ELSE IF isAsFound = Str(<<"t", "r", "u", "e">>) THEN Str(<<"a", "s", "F", "o", "u", "n", "d">>)
       ELSE IF isAsLeft = Str(<<"t", "r", "u", "e">>) THEN Str(<<"a", "s", "L", "e", "f", "t">>)
       ELSE Null

\* the rest of extractConformity on the element ff that was looked up
ConformityOf(d, ff) ==
    IF ff.threw THEN Throw
    ELSE IF ff.el = {} THEN Null
    ELSE LET val == getAttribute(d, CHOOSE e \in ff.el : TRUE, "isConform")
         IN IF IsThrow(val) THEN Throw
            ELSE IF val = Str(<<"t", "r", "u", "e">>) THEN Str(<<"p", "a", "s", "s">>)
            ELSE IF val = Str(<<"f", "a", "l", "s", "e">>) THEN Str(<<"f", "a", "i", "l">>)
            ELSE Null

\* a conformity rule that reads the context element whatever its source
extractConformityOfContext(d, context, source) ==
    ConformityOf(d, [threw |-> FALSE, el |-> {context}])

extractConformity(d, context, source) ==
    ConformityOf(d, IF ~Truthy(source) \/ source = Str(<<Dot>>)
                    THEN [threw |-> FALSE, el |-> {context}]
                    ELSE findFirst(d, context, source))

\* the pattern matches no text
NoDateMatch(val) == FALSE

\* val.match(/^(\d{4}-\d{2}-\d{2})/)
DateMatch(val) ==
    /\ Len(val) >= 10
    /\ \A i \in {1, 2, 3, 4, 6, 7, 9, 10} : IsDigit(val[i])
    /\ val[5] = "-" /\ val[8] = "-"

dateTimeToDate(val) ==
    IF ~Truthy(val) THEN Null
    ELSE IF DateMatch(val.v) THEN Str(SubSeq(val.v, 1, 10)) ELSE val

\* the switch of extractValue on a non-empty raw string
\* true for "true" and "1", no value for any other text
TrueOrNull(raw) == IF raw.v = <<"t", "r", "u", "e">> \/ raw.v = <<"1">> THEN Bool(TRUE) ELSE Null

\* case 'boolean': return raw === 'true' || raw === '1'
TrueOrOne(raw) == Bool(raw.v = <<"t", "r", "u", "e">> \/ raw.v = <<"1">>)

Convert(type, raw) ==
    CASE type = "number" -> ParseFloat(raw.v)
      [] type = "integer" -> ParseInt(raw.v)
      [] type = "boolean" -> TrueOrOne(raw)
      [] type = "date" -> dateTimeToDate(raw)
      [] OTHER -> raw

\* if (raw == null || raw === '') return null, then the switch
ConvertRaw(type, raw) ==
    IF IsThrow(raw) THEN Throw
    ELSE IF IsNullish(raw) \/ raw = Str(<<>>) THEN Null
    ELSE Convert(type, raw)

extractValue(d, context, field) ==
    LET source == Field(field, "source")
        type == TypeOf(field)
    IN CASE type = "static" -> Field(field, "value")
         [] type = "concat" -> extractConcat(d, context, field)
         [] type = "template" -> extractTemplate(d, context, field)
         [] type = "lookup" -> extractLookup(d, context, field)
         [] type = "firstOf" -> extractFirstOf(d, context, field)
         [] type = "asFoundAsLeft" -> extractAsFoundAsLeft(d, context)
         [] type = "conformity" -> extractConformity(d, context, source)
         [] OTHER ->
              IF ~Truthy(source) THEN Null
              ELSE ConvertRaw(type, resolveRawValue(d, context, source))

---------------------------------------------------------------------------
(* Rule application *)

RECURSIVE processArrayFieldsFrom(_, _, _, _, _)
RECURSIVE processArrayElements(_, _, _, _)
RECURSIVE ruleValue(_, _, _)

\* arr.push(item), before the items that follow: the array, or Throw
Push(item, rest) ==
    IF IsThrow(item) \/ IsThrow(rest) THEN Throw
    ELSE Arr(<<item>> \o rest.v)

\* for (const el of elements) arr.push(processArrayFields(doc, el, fields))
processArrayElements(d, elements, fields, i) ==
    IF i > Len(elements) THEN Arr(<<>>)
    ELSE Push(processArrayFieldsFrom(d, elements[i], fields, 1, EmptyObj),
              processArrayElements(d, elements, fields, i + 1))

\* null instead of an empty array when no element was found
ArrayOrNull(d, found, fields) ==
    IF found.threw THEN Throw
    ELSE IF found.els = <<>> THEN Null
    ELSE processArrayElements(d, found.els, fields, 1)

\* the array built from the elements found
ArrayOf(d, found, fields) ==
    IF found.threw THEN Throw
    ELSE processArrayElements(d, found.els, fields, 1)

\* [threw, write, key, val]: the key and the value to write; write tells
\* whether the value is written (always for an array, else unless null)
Extracted(key, val, always) ==
    [threw |-> IsThrow(val) \/ IsThrow(key), write |-> always \/ ~IsNullish(val),
     key |-> key, val |-> val]

\* what applyRule, and one iteration of processArrayFields, extract before
\* they write: the array of the elements found under the key without '[]',
\* or the value of extractValue under the target
ruleValue(d, context, rule) ==
    IF TypeOf(rule) = "array"
    THEN Extracted(DeBracket(Field(rule, "target")),
                   ArrayOf(d, findElements(d, context, Field(rule, "source")), FieldsOf(rule)),
                   TRUE)
    ELSE Extracted(Field(rule, "target"), extractValue(d, context, rule), FALSE)

\* item[key] = value of processArrayFields on the extracted value rv: the
\* item, or Throw
writeField(rv, item) ==
    IF rv.threw THEN Throw
    ELSE IF ~rv.write THEN item
    ELSE PutProp(item, TargetKey(rv.key), rv.val)

\* the loop of processArrayFields from fields[i] on; item is the object so far
processArrayFieldsFrom(d, parentEl, fields, i, item) ==
    IF i > Len(fields) \/ IsThrow(item) THEN item
    ELSE processArrayFieldsFrom(d, parentEl, fields, i + 1,
                                writeField(ruleValue(d, parentEl, fields[i]), item))

processArrayFields(d, parentEl, fields) ==
    processArrayFieldsFrom(d, parentEl, fields, 1, EmptyObj)

\* the rest of applyRule on the extracted value rv: [threw, obj], obj being
\* target as the call leaves it
writeRule(rv, target) ==
    IF rv.threw THEN [threw |-> TRUE, obj |-> target]
    ELSE IF ~rv.write THEN [threw |-> FALSE, obj |-> target]
    ELSE setNested(target, rv.key, rv.val)

\* applyRule(doc, context, rule, target)
applyRule(d, context, rule, target) == writeRule(ruleValue(d, context, rule), target)

---------------------------------------------------------------------------
(* Source documents of the model *)

Node(name, parent, attrs, text) ==
    [name |-> name, ns |-> "", parent |-> parent, attrs |-> attrs, text |-> text]

NoAttrs == <<>>
True == <<"t", "r", "u", "e">>
False == <<"f", "a", "l", "s", "e">>

\* <Cal><Cert status="">AB-1</Cert><Date>2024-08-09T14</Date><Empty> </Empty>
\*   <Partner role="SoldTo"><Type>x</Type><Name>N1</Name></Partner>
\*   <Partner role="ShipTo"><Type>y</Type><Name>N2</Name></Partner>
\*   <Val>abc</Val><Status>OK</Status><Kind>constructor</Kind><Price>$$</Price>
\*   <Valid>false</Valid><Active>true</Active><Flag>1</Flag><Type>z</Type></Cal>
DocHeader ==
    [ok |-> TRUE,
     nodes |-> <<
        Node("Cal", 0, NoAttrs, <<>>),
        Node("Cert", 1, [status |-> <<>>], <<"A", "B", "-", "1">>),
        Node("Date", 1, NoAttrs, <<"2", "0", "2", "4", "-", "0", "8", "-", "0", "9", "T", "1", "4">>),
        Node("Empty", 1, NoAttrs, <<" ">>),
        Node("Partner", 1, [role |-> <<"S", "o", "l", "d", "T", "o">>], <<>>),
        Node("Type", 5, NoAttrs, <<"x">>),
        Node("Name", 5, NoAttrs, <<"N", "1">>),
        Node("Partner", 1, [role |-> <<"S", "h", "i", "p", "T", "o">>], <<>>),
        Node("Type", 8, NoAttrs, <<"y">>),
        Node("Name", 8, NoAttrs, <<"N", "2">>),
        Node("Val", 1, NoAttrs, <<"a", "b", "c">>),
        Node("Status", 1, NoAttrs, <<"O", "K">>),
        Node("Kind", 1, NoAttrs, <<"c", "o", "n", "s", "t", "r", "u", "c", "t", "o", "r">>),
        Node("Price", 1, NoAttrs, <<"$", "$">>),
        Node("Valid", 1, NoAttrs, False),
        Node("Active", 1, NoAttrs, True),
        Node("Flag", 1, NoAttrs, <<"1">>),
        Node("Type", 1, NoAttrs, <<"z">>),
        Node("Day", 1, NoAttrs, <<"2", "0", "2", "4", "-", "0", "8", "-", "0", "9">>),
        Node("Stamp", 1, NoAttrs,
             <<"2", "0", "2", "4", "-", "0", "8", "-", "0", "9", "T", "1", "4", ":", "3", "5",
               ":", "1", "3", ".", "0", "9", "4", "+", "0", "2", ":", "0", "0">>),
        Node("Short", 1, NoAttrs, <<"2", "0", "2", "4", "-", "8", "-", "9">>),
        Node("Late", 1, NoAttrs, <<"x", "2", "0", "2", "4", "-", "0", "8", "-", "0", "9">>),
        Node("Year", 1, NoAttrs, <<"2", "0", "2", "4">>),
        Node("Slashed", 1, NoAttrs, <<"2", "0", "2", "4", "/", "0", "8", "/", "0", "9">>),
        Node("Five", 1, NoAttrs, <<"2", "0", "2", "4", "0", "-", "0", "8", "-", "0", "9">>),
        Node("Brace", 1, NoAttrs, <<"{", "1", "}">>) >>]

\* <Cal><Set id="2">
\*        <Point id="3" isConform="true" isAsFound="true"><SetPoint unit="V">10</SetPoint>
\*          <Point id="5" isAsFound="true" isAsLeft="true"/></Point>
\*        <Point id="6" isConform="false" isAsLeft="true"><SetPoint unit="">20</SetPoint></Point>
\*        <Point id="8" isAsFound="TRUE"><SetPoint>30</SetPoint></Point></Set>
\*      <Set id="10"><Point id="11" isConform=""><SetPoint>x5</SetPoint></Point></Set></Cal>
\* every id attribute is the element's position in document order
DocPoints ==
    [ok |-> TRUE,
     nodes |-> <<
        Node("Cal", 0, NoAttrs, <<>>),
        Node("Set", 1, [id |-> <<"2">>], <<>>),
        Node("Point", 2, [id |-> <<"3">>, isConform |-> True, isAsFound |-> True], <<>>),
        Node("SetPoint", 3, [unit |-> <<"V">>], <<"1", "0">>),
        Node("Point", 3, [id |-> <<"5">>, isAsFound |-> True, isAsLeft |-> True], <<>>),
        Node("Point", 2, [id |-> <<"6">>, isConform |-> False, isAsLeft |-> True], <<>>),
        Node("SetPoint", 6, [unit |-> <<>>], <<"2", "0">>),
        Node("Point", 2, [id |-> <<"8">>, isAsFound |-> <<"T", "R", "U", "E">>], <<>>),
        Node("SetPoint", 8, NoAttrs, <<"3", "0">>),
        Node("Set", 1, [id |-> <<"1", "0">>], <<>>),
        Node("Point", 10, [id |-> <<"1", "1">>, isConform |-> <<>>], <<>>),
        Node("SetPoint", 11, NoAttrs, <<"x", "5">>) >>]

\* a text that is no well-formed XML: the parser returns a document holding a
\* parsererror element
DocMalformed ==
    [ok |-> FALSE,
     nodes |-> <<Node("parsererror", 0, NoAttrs, <<"e", "r", "r", "o", "r">>)>>]

Docs == <<DocHeader, DocPoints, DocMalformed>>

\* the same document with every element in the namespace uri (a default
\* xmlns declaration or a prefix bound to it)
WithNamespace(d, uri) ==
    [d EXCEPT !.nodes = [i \in 1..Len(d.nodes) |-> [d.nodes[i] EXCEPT !.ns = uri]]]

---------------------------------------------------------------------------
(* Mapping rules of the model's profiles *)

P1(a) == Str(<<PName(a)>>)
P2(a, b) == Str(<<PName(a), Slash, PName(b)>>)
AttrOf(a, b) == Str(<<PName(a), Slash, At(b)>>)
T1(a) == Str(<<a>>)
T2(a, b) == Str(<<a, ".", b>>)
TArr(a) == Str(<<a, "[]">>)

\* { target: "coreData.uniqueIdentifier", source: "Cert", type: "string" }
RCert == [target |-> T2("coreData", "uniqueIdentifier"), source |-> P1("Cert"), type |-> "string"]

\* { target: "coreData.beginPerformanceDate", source: "Date", type: "date" }
RDate == [target |-> T2("coreData", "beginPerformanceDate"), source |-> P1("Date"), type |-> "date"]

\* { target: "coreData.value", source: "Val", type: "number" }
RVal == [target |-> T2("coreData", "value"), source |-> P1("Val"), type |-> "number"]

\* { target: "coreData.status", source: "Cert/@status", type: "lookup", map: { "OK": "pass" } }
RStatus ==
    [target |-> T2("coreData", "status"), source |-> AttrOf("Cert", "status"), type |-> "lookup",
     map |-> Obj([OK |-> Str(<<"p", "a", "s", "s">>)])]

\* { target: "coreData.orderNumber", source: "../@id", type: "string" }
RDocAttr ==
    [target |-> T2("coreData", "orderNumber"), source |-> Str(<<DotDot, Slash, At("id")>>),
     type |-> "string"]

\* { type: "static", value: "x" }: a rule without target
RNoTarget == [type |-> "static", value |-> Str(<<"x">>)]

\* { target: "customer.name", source: "Partner[@role='SoldTo']/Name", type: "string" }
RSoldTo ==
    [target |-> T2("customer", "name"),
     source |-> Str(<<PName("Partner"), PredAttr("role", "SoldTo"), Slash, PName("Name")>>),
     type |-> "string"]

\* { target: "customer.contactPerson", source: "Partner[Type='y']/Name", type: "string" }
RByType ==
    [target |-> T2("customer", "contactPerson"),
     source |-> Str(<<PName("Partner"), PredChild("Type", "y"), Slash, PName("Name")>>),
     type |-> "string"]

\* the fields of a point, as in the README's example profile
PointFields ==
    << [target |-> T1("id"), source |-> Str(<<At("id")>>), type |-> "integer"],
       [target |-> T1("setPoint"), source |-> P1("SetPoint"), type |-> "number"],
       [target |-> T1("setPointUnit"), source |-> AttrOf("SetPoint", "unit"), type |-> "string"],
       [target |-> T1("conformity"), type |-> "conformity"],
       [target |-> T1("category"), type |-> "asFoundAsLeft"] >>

\* { target: "measurementResults[]", source: "Set", type: "array", fields: [
\*     { target: "id", source: "@id", type: "integer" },
\*     { target: "results[]", source: "Point", type: "array", fields: [...] } ] }
RSets ==
    [target |-> TArr("measurementResults"), source |-> P1("Set"), type |-> "array",
     fields |-> << [target |-> T1("id"), source |-> Str(<<At("id")>>), type |-> "integer"],
                   [target |-> TArr("results"), source |-> P1("Point"), type |-> "array",
                    fields |-> PointFields] >>]

\* { target: "items[]", source: "Point", type: "array", fields: [
\*     { target: "id", source: "@id", type: "integer" },
\*     { target: "results[]", source: "Point", type: "array", fields: [ id ] } ] }
RPoints ==
    [target |-> TArr("items"), source |-> P1("Point"), type |-> "array",
     fields |-> << [target |-> T1("id"), source |-> Str(<<At("id")>>), type |-> "integer"],
                   [target |-> TArr("results"), source |-> P1("Point"), type |-> "array",
                    fields |-> << [target |-> T1("id"), source |-> Str(<<At("id")>>),
                                   type |-> "integer"] >>] >>]

\* one field of every source-reading type, each on a source that is missing
\* (Missing), empty (Empty, white space only) or an attribute with value ""
EmptyFields ==
    << [target |-> T1("string"), source |-> P1("Empty"), type |-> "string"],
       [target |-> T1("stringAttr"), source |-> AttrOf("Cert", "status"), type |-> "string"],
       [target |-> T1("number"), source |-> P1("Missing"), type |-> "number"],
       [target |-> T1("integer"), source |-> AttrOf("Cert", "status"), type |-> "integer"],
       [target |-> T1("boolean"), source |-> P1("Empty"), type |-> "boolean"],
       [target |-> T1("date"), source |-> AttrOf("Cert", "status"), type |-> "date"],
       [target |-> T1("conformity"), source |-> P1("Missing"), type |-> "conformity"],
       [target |-> T1("concat"), sources |-> <<P1("Empty"), AttrOf("Cert", "status")>>,
        type |-> "concat"],
       [target |-> T1("template"), sources |-> <<AttrOf("Cert", "status"), P1("Missing")>>,
        template |-> Str(<<"{", "0", "}", " ", "{", "1", "}">>), type |-> "template"],
       [target |-> T1("firstOf"), sources |-> <<P1("Missing"), AttrOf("Cert", "status")>>,
        type |-> "firstOf"],
       [target |-> T1("lookupMissing"), source |-> P1("Missing"), type |-> "lookup",
        map |-> Obj([OK |-> Str(<<"p", "a", "s", "s">>)])],
       [target |-> T1("lookup"), source |-> AttrOf("Cert", "status"), type |-> "lookup",
        map |-> Obj([OK |-> Str(<<"p", "a", "s", "s">>)])] >>

\* { target: "statements[]", source: "Cal", type: "array", fields: EmptyFields }
REmpties == [target |-> TArr("statements"), source |-> P1("Cal"), type |-> "array",
             fields |-> EmptyFields]

BaseRules == <<RCert, RDate, RVal, RStatus, RDocAttr, RNoTarget, RSoldTo, RByType,
               RSets, RPoints, REmpties>>

Pass == Str(<<"p", "a", "s", "s">>)
Fail == Str(<<"f", "a", "i", "l">>)
\* a lookup rule on the text of element src
Lookup(target, src, map) ==
    [target |-> T2("coreData", target), source |-> P1(src), type |-> "lookup", map |-> Obj(map)]

\* lookup rules on <Status>OK</Status>, <Kind>constructor</Kind> and a missing
\* element; the map of the README is { "OK": "pass", "NOK": "fail" }
LookupRules ==
    << Lookup("exact", "Status", [OK |-> Pass, ok |-> Str(<<"l">>), x |-> Str(<<"d">>)] @@ ("*" :> Str(<<"d">>))),
       Lookup("lower", "Status", [ok |-> Str(<<"l">>)] @@ ("*" :> Str(<<"d">>))),
       Lookup("default", "Status", [NOK |-> Fail] @@ ("*" :> Str(<<"d">>))),
       Lookup("through", "Status", [NOK |-> Fail]),
       Lookup("readme", "Status", [OK |-> Pass, NOK |-> Fail]),
       Lookup("kind", "Kind", [OK |-> Pass, NOK |-> Fail]),
       Lookup("missing", "Missing", [OK |-> Pass] @@ ("*" :> Str(<<"d">>))) >>

IdField == [target |-> T1("id"), source |-> Str(<<At("id")>>), type |-> "integer"]

\* { target: "results[]", source: "Point", type: "array", fields: [ id,
\*     conformity fields without source and on ".", on the child elements
\*     Point and SetPoint and on a missing element; asFoundAsLeft fields
\*     without source and with the sources "SetPoint", "Missing" and the
\*     README's "Calibrations/Calibration" ] }
RConformities ==
    [target |-> TArr("results"), source |-> P1("Point"), type |-> "array",
     fields |-> <<
        IdField,
        [target |-> T1("conformity"), type |-> "conformity"],
        [target |-> T1("conformityDot"), source |-> Str(<<Dot>>), type |-> "conformity"],
        [target |-> T1("conformityPoint"), source |-> P1("Point"), type |-> "conformity"],
        [target |-> T1("conformitySetPoint"), source |-> P1("SetPoint"), type |-> "conformity"],
        [target |-> T1("conformityMissing"), source |-> P1("Missing"), type |-> "conformity"],
        [target |-> T1("category"), type |-> "asFoundAsLeft"],
        [target |-> T1("categorySetPoint"), source |-> P1("SetPoint"), type |-> "asFoundAsLeft"],
        [target |-> T1("categoryMissing"), source |-> P1("Missing"), type |-> "asFoundAsLeft"],
        [target |-> T1("categoryReadme"), source |-> P2("Calibrations", "Calibration"),
         type |-> "asFoundAsLeft"] >>]

\* { target: "measurementResults[]", source: "Set", type: "array", fields: [ id,
\*     conformity on "Point", on "Point[@id='6']" and on "Point/Point",
\*     asFoundAsLeft with source "Point" ] }
RSetConformities ==
    [target |-> TArr("measurementResults"), source |-> P1("Set"), type |-> "array",
     fields |-> <<
        IdField,
        [target |-> T1("conformity"), source |-> P1("Point"), type |-> "conformity"],
        [target |-> T1("conformitySix"), source |-> Str(<<PName("Point"), PredAttr("id", "6")>>),
         type |-> "conformity"],
        [target |-> T1("conformityNested"), source |-> P2("Point", "Point"), type |-> "conformity"],
        [target |-> T1("category"), source |-> P1("Point"), type |-> "asFoundAsLeft"] >>]

\* the README's test point fields: { target: "results[]", source: "Set/Point",
\*   type: "array", fields: [ id, { target: "setPoint", source: "SetPoint", type: "number" },
\*     { target: "conformity", source: "@isConform", type: "conformity" } ] }
RReadme ==
    [target |-> TArr("results"), source |-> P2("Set", "Point"), type |-> "array",
     fields |-> <<
        IdField,
        [target |-> T1("setPoint"), source |-> P1("SetPoint"), type |-> "number"],
        [target |-> T1("conformity"), source |-> Str(<<At("isConform")>>), type |-> "conformity"] >>]

\* { target: "conformity", source: "Point", type: "conformity" }
RTopConformity == [target |-> T1("conformity"), source |-> P1("Point"), type |-> "conformity"]

\* { target: "category", source: "Point", type: "asFoundAsLeft" }
RTopCategory == [target |-> T1("category"), source |-> P1("Point"), type |-> "asFoundAsLeft"]

ContainerRules == <<RConformities, RSetConformities, RReadme, RTopConformity, RTopCategory>>

\* { target: "paths.<target>", source: <path>, type: "string" }
StringRule(target, path) == [target |-> T2("paths", target), source |-> path, type |-> "string"]
StringField(target, path) == [target |-> T1(target), source |-> path, type |-> "string"]

\* string rules on paths of one, two and three names: of elements below the
\* root (Name and Type twice, Type also as a later child of the root), of the
\* root itself and its children, and of grandchildren named as children
PathRules ==
    << StringRule("name", P1("Name")),
       StringRule("type", P1("Type")),
       StringRule("root", P1("Cal")),
       StringRule("rootCert", P2("Cal", "Cert")),
       StringRule("rootName", P2("Cal", "Name")),
       StringRule("partnerName", P2("Partner", "Name")),
       StringRule("three", Str(<<PName("Cal"), Slash, PName("Partner"), Slash, PName("Name")>>)),
       StringRule("setPoint", P1("SetPoint")),
       StringRule("pointSetPoint", P2("Point", "SetPoint")),
       StringRule("setSetPoint", P2("Set", "SetPoint")) >>

\* { target: "items[]", source: "Cal", type: "array", fields: [
\*     { target: "cert", source: "Cert", type: "string" },
\*     { target: "name", source: "Name", type: "string" },
\*     { target: "partners[]", source: "Partner", type: "array", fields: [ name ] } ] }
\* the container is the root element
RRootFields ==
    [target |-> TArr("items"), source |-> P1("Cal"), type |-> "array",
     fields |-> << StringField("cert", P1("Cert")),
                   StringField("name", P1("Name")),
                   [target |-> TArr("partners"), source |-> P1("Partner"), type |-> "array",
                    fields |-> <<StringField("name", P1("Name"))>>] >>]

\* { target: "partners[]", source: "Partner", type: "array", fields: [ name, type,
\*     cert (an element elsewhere in the document) ] }
RPartners ==
    [target |-> TArr("partners"), source |-> P1("Partner"), type |-> "array",
     fields |-> << StringField("name", P1("Name")),
                   StringField("type", P1("Type")),
                   StringField("cert", P1("Cert")) >>]

\* { target: "sets[]", source: "Set", type: "array", fields: [
\*     setPoint (a grandchild), { target: "points[]", source: "Point", type: "array",
\*       fields: [ setPoint, { target: "inner[]", source: "Point", ... fields: [ setPoint ] } ] } ] }
RSetFields ==
    [target |-> TArr("sets"), source |-> P1("Set"), type |-> "array",
     fields |-> << StringField("setPoint", P1("SetPoint")),
                   [target |-> TArr("points"), source |-> P1("Point"), type |-> "array",
                    fields |-> << StringField("setPoint", P1("SetPoint")),
                                  [target |-> TArr("inner"), source |-> P1("Point"),
                                   type |-> "array",
                                   fields |-> <<StringField("setPoint", P1("SetPoint"))>>] >>] >>]

RelativeRules == <<RRootFields, RPartners, RSetFields>>

\* { target: "coreData.uniqueIdentifier", source: "Status", type: "string" }:
\* the target of RCert once more
RCertAgain ==
    [target |-> T2("coreData", "uniqueIdentifier"), source |-> P1("Status"), type |-> "string"]

\* { target: "coreData.lab.name", source: "Kind", type: "string" }
RLabName ==
    [target |-> Str(<<"coreData", ".", "lab", ".", "name">>), source |-> P1("Kind"),
     type |-> "string"]

\* { target: "coreData.lab.city", source: "Flag", type: "string" }
RLabCity ==
    [target |-> Str(<<"coreData", ".", "lab", ".", "city">>), source |-> P1("Flag"),
     type |-> "string"]

\* rules whose targets share intermediate objects, two of them one target
AssemblyRules == <<RCert, RCertAgain, RDate, RLabName, RLabCity, RSoldTo>>

\* { target: "texts.<target>", sources: [...], template: "...", type: "template" }
Template(target, sources, template) ==
    [target |-> T2("texts", target), sources |-> sources, template |-> Str(template),
     type |-> "template"]

\* template rules: two sources, a placeholder twice, a missing and an empty
\* source, no source with a value, surrounding blanks, a value with "$", a
\* value that reads "{1}" at placeholder {0} and at placeholder {1}
TemplateRules ==
    << Template("both", <<P1("Cert"), P1("Status")>>, <<"{", "0", "}", " ", "{", "1", "}">>),
       Template("twice", <<P1("Status")>>, <<"{", "0", "}", "-", "{", "0", "}">>),
       Template("missing", <<P1("Missing"), P1("Status")>>, <<"{", "0", "}", " ", "{", "1", "}">>),
       Template("empty", <<P1("Status"), P1("Empty")>>, <<" ", "{", "0", "}", "/", "{", "1", "}", " ">>),
       Template("none", <<P1("Missing"), P1("Empty")>>, <<"n", "o", " ", "{", "0", "}", "{", "1", "}">>),
       Template("price", <<P1("Price")>>, <<"{", "0", "}">>),
       Template("brace", <<P1("Brace"), P1("Status")>>, <<"{", "0", "}">>),
       Template("braces", <<P1("Status"), P1("Brace")>>, <<"{", "0", "}", " ", "{", "1", "}">>) >>

\* { target: "flags.<target>", source: ..., type: "boolean" }
Boolean(target, source) == [target |-> T2("flags", target), source |-> source, type |-> "boolean"]

\* { target: "checks[]", source: "Point", type: "array", fields: [ id,
\*     { target: "conform", source: "@isConform", type: "boolean" },
\*     { target: "found", source: "@isAsFound", type: "boolean" },
\*     { target: "hasSetPoint", source: "SetPoint", type: "boolean" } ] }
RChecks ==
    [target |-> TArr("checks"), source |-> P1("Point"), type |-> "array",
     fields |-> <<
        IdField,
        [target |-> T1("conform"), source |-> Str(<<At("isConform")>>), type |-> "boolean"],
        [target |-> T1("found"), source |-> Str(<<At("isAsFound")>>), type |-> "boolean"],
        [target |-> T1("hasSetPoint"), source |-> P1("SetPoint"), type |-> "boolean"] >>]

\* boolean rules on the texts "false", "true", "1", "OK" and " ", on a
\* missing element, and on attributes "true", "false", "TRUE", "" and absent
BooleanRules ==
    << Boolean("valid", P1("Valid")), Boolean("active", P1("Active")),
       Boolean("flag", P1("Flag")), Boolean("status", P1("Status")),
       Boolean("empty", P1("Empty")), Boolean("missing", P1("Missing")), RChecks >>

\* { target: "dates.<target>", source: ..., type: "date" }
DateRule(target, source) == [target |-> T2("dates", target), source |-> source, type |-> "date"]

\* date rules on a date, a date with time (short and with zone), a date
\* without leading zeros, a date after another character, a year, a date
\* with slashes, a year of five digits, and on no text
DateRules ==
    << DateRule("day", P1("Day")), DateRule("date", P1("Date")), DateRule("stamp", P1("Stamp")),
       DateRule("short", P1("Short")), DateRule("late", P1("Late")), DateRule("year", P1("Year")),
       DateRule("slashed", P1("Slashed")), DateRule("five", P1("Five")),
       DateRule("empty", P1("Empty")), DateRule("missing", P1("Missing")) >>

\* the rules of the model by group: the rules of a profile come from one group
RuleGroups == <<BaseRules, LookupRules, ContainerRules, PathRules, RelativeRules,
               AssemblyRules, TemplateRules, BooleanRules,
               DateRules>>

RECURSIVE Flatten(_)
Flatten(groups) == IF groups = <<>> THEN <<>> ELSE Head(groups) \o Flatten(Tail(groups))

RECURSIVE GroupIndex(_, _)
\* the group of every rule of Flatten(groups), g being the number of the first
GroupIndex(groups, g) ==
    IF groups = <<>> THEN <<>>
    ELSE [k \in 1..Len(Head(groups)) |-> g] \o GroupIndex(Tail(groups), g + 1)

Rules == Flatten(RuleGroups)
GroupOf == GroupIndex(RuleGroups, 1)

\* profile.mappings may go on with rule k
SameGroup(ks, k) == IF ks = <<>> THEN TRUE ELSE GroupOf[ks[1]] = GroupOf[k]

\* the longest profile.mappings of the model
MaxRules == 3

---------------------------------------------------------------------------
(* convertXmlToDccJson as a process: parse, one step per rule of the loop, *)
(* return.                                                                 *)

\* a conversion that takes every parsed document as well-formed
noParseError(d) == FALSE

\* doc.querySelector('parsererror'): the document holds such an element
parseError(d) == \E i \in 1..Len(d.nodes) : d.nodes[i].name = "parsererror"

\* the namespace the twin run gives every element of the document
TwinNs == "urn:x"

\* the loop without the try/catch: the error of a rule leaves the function
AfterRuleRethrow(r) == IF r.threw THEN "threw" ELSE "loop"

\* try { applyRule(...) } catch (e) { console.warn(...) }: where the loop
\* goes after a rule whose outcome is r
AfterRule(r) == "loop"

GenIdle ==
    /\ gpc = "idle" /\ data = 0 /\ lines = <<>> /\ warnings = <<>>
    /\ dataWarnings = <<>>
    /\ returned = {} /\ calls = 0

EngineIdle ==
    /\ pc = "idle" /\ docIx = 0 /\ profile = <<>>
    /\ result = EmptyObj /\ resultNs = EmptyObj /\ failed = {}

\* mapping-store.js: nothing is stored under STORAGE_KEY and no id was generated
StoreIdle ==
    /\ stored = <<>> /\ issued = 0 /\ now = 1
    /\ lastOp = [name |-> "none"] /\ before = <<>>

\* app.js 26-28 and the refreshXmlProfileSelect() of the start-up (app.js 1257):
\* no file, no text, no profile selected, the Convert button disabled
AppIdle ==
    /\ xmlFile = 0 /\ xmlContent = 0 /\ selectedProfileId = 0 /\ select = 0
    /\ convertDisabled = TRUE /\ reading = {} /\ clicks = 0

Init == EngineIdle /\ GenIdle /\ StoreIdle /\ AppIdle

\* ruleValue of every rule on the root of every document and of its twin
\* (a table of the values RuleStep needs, computed once)
RootValue ==
    [twin \in BOOLEAN |-> [i \in 1..Len(Docs) |-> [k \in 1..Len(Rules) |->
        ruleValue(IF twin THEN WithNamespace(Docs[i], TwinNs) ELSE Docs[i],
                  documentElement(Docs[i]), Rules[k])]]]

\* the body of the loop on rule k, rv being the table of the rules' values:
\* the rule is applied to the result (and, on the twin, to the twin's)
ApplyRules(k, rv) ==
    LET r == writeRule(rv[FALSE][docIx][k], result)
        rn == writeRule(rv[TRUE][docIx][k], resultNs)
    IN /\ profile' = Append(profile, k)
       /\ result' = r.obj
       /\ resultNs' = rn.obj
       /\ failed' = IF r.threw THEN failed \cup {Len(profile) + 1} ELSE failed
       /\ pc' = IF r.threw THEN AfterRule(r) ELSE "loop"

\* lines 288-296: parse the text; a parse error is thrown to the caller
ConvertStart(i) ==
    /\ pc = "idle"
    /\ docIx' = i
    /\ profile' = <<>>
    /\ result' = EmptyObj
    /\ resultNs' = EmptyObj
    /\ failed' = {}
    /\ pc' = IF parseError(Docs[i]) THEN "threw" ELSE "loop"
    /\ UNCHANGED <<genVars, storeVars, appVars>>

\* lines 298-304: one iteration of the loop over profile.mappings, on rule k
RuleStep(k) ==
    /\ pc = "loop"
    /\ Len(profile) < MaxRules
    /\ SameGroup(profile, k)
    /\ ApplyRules(k, RootValue)
    /\ UNCHANGED <<docIx>>
    /\ UNCHANGED <<genVars, storeVars, appVars>>

\* line 306: the loop is over, return result
ConvertReturn ==
    /\ pc = "loop"
    /\ pc' = "done"
    /\ UNCHANGED <<docIx, profile, result, resultNs, failed>>
    /\ UNCHANGED <<genVars, storeVars, appVars>>

\* the caller takes the result (or the error); the next conversion may start
ConvertEnd ==
    /\ pc \in {"done", "threw"}
    /\ pc' = "idle" /\ docIx' = 0 /\ profile' = <<>>
    /\ result' = EmptyObj /\ resultNs' = EmptyObj /\ failed' = {}
    /\ UNCHANGED <<genVars, storeVars, appVars>>

Next ==
    \/ \E i \in 1..Len(Docs) : ConvertStart(i)
    \/ \E k \in 1..Len(Rules) : RuleStep(k)
    \/ ConvertReturn
    \/ ConvertEnd

Spec == Init /\ [][Next]_vars

---------------------------------------------------------------------------
(* Properties of the mapping engine *)

RECURSIVE RunRules(_, _, _)
\* the object that applying the rules ks in order to target leaves
RunRules(i, ks, target) ==
    IF ks = <<>> THEN target
    ELSE RunRules(i, Tail(ks), writeRule(RootValue[FALSE][i][Head(ks)], target).obj)

RECURSIVE Kept(_, _, _)
\* the profile without the rules at the positions F (i: position of Head(ks))
Kept(ks, F, i) ==
    IF ks = <<>> THEN <<>>
    ELSE (IF i \in F THEN <<>> ELSE <<Head(ks)>>) \o Kept(Tail(ks), F, i + 1)

\* C1: a conversion of a well-formed document returns (only a parse error is
\* thrown to the caller), and what it returns is exactly what the rules that
\* raised no error write when the failing rules are left out of the profile.
C1_FailureIsolation ==
    /\ pc = "threw" => parseError(Docs[docIx])
    /\ pc = "done" => result = RunRules(docIx, Kept(profile, failed, 1), EmptyObj)

\* a returned conversion whose second rule of three failed, with a rule before
\* it and a rule after it that wrote their values
C1_Witness ==
    /\ pc = "done" /\ Len(profile) = 3 /\ failed = {2}
    /\ RunRules(docIx, <<profile[1]>>, EmptyObj) # EmptyObj
    /\ result # RunRules(docIx, <<profile[1]>>, EmptyObj)

SourceReading == {"string", "number", "integer", "boolean", "date", "conformity",
                  "concat", "template", "lookup", "firstOf", ""}

\* the source of the rule resolves to no node or to the empty string
ResolvesEmpty(d, context, source) ==
    LET raw == resolveRawValue(d, context, source)
    IN IsNullish(raw) \/ raw = Str(<<>>)

\* every source the rule reads is missing or empty
EmptySourced(d, context, rule) ==
    /\ TypeOf(rule) \in SourceReading
    /\ CASE TypeOf(rule) \in {"concat", "template", "firstOf"} ->
              \A i \in 1..Len(SourcesOf(rule)) : ResolvesEmpty(d, context, SourcesOf(rule)[i])
         [] TypeOf(rule) = "conformity" ->
              /\ Truthy(Field(rule, "source"))
              /\ findFirst(d, context, Field(rule, "source")).el = {}
         [] OTHER -> ResolvesEmpty(d, context, Field(rule, "source"))

RECURSIVE GetPath(_, _, _)
\* the value at keys[i..] under x, Undef when there is none
GetPath(x, keys, i) ==
    IF i > Len(keys) THEN x
    ELSE IF IsNullish(x) THEN Undef
    ELSE GetPath(Prop(x, keys[i]), keys, i + 1)

\* the value the result holds at the target of a rule
AtTarget(res, rule) ==
    GetPath(res, SplitDot(RemoveFirst(Field(rule, "target").v, "[]"), ""), 1)

\* the container elements of a top-level array rule, in document order
Containers(d, rule) ==
    DocumentOrder(evaluate(d, toXPath(Field(rule, "source"), TRUE).steps, documentElement(d)).nodes)

\* C2 (as claimed): a rule of a source-reading type whose source is missing or
\* empty raises no error and writes no key at its target, as a top-level rule
\* and as a field of an array rule.
C2_EmptyOmitted ==
    pc = "done" =>
      \A i \in 1..Len(profile) :
        LET d == Docs[docIx]
            rule == Rules[profile[i]]
        IN /\ EmptySourced(d, documentElement(d), rule) =>
                i \notin failed /\ AtTarget(result, rule) = Undef
           /\ (TypeOf(rule) = "array" /\ i \notin failed) =>
                \A j \in 1..Len(Containers(d, rule)) :
                  \A f \in 1..Len(FieldsOf(rule)) :
                    EmptySourced(d, Containers(d, rule)[j], FieldsOf(rule)[f]) =>
                      TargetKey(Field(FieldsOf(rule)[f], "target"))
                        \notin DOMAIN AtTarget(result, rule).v[j].v

IdOf(o) == o.v["id"].n

RECURSIVE ArrayInOrder(_, _, _, _)
\* arr is the output of the array rule on context: one object per matched
\* element, the i-th from the i-th element in document order (every id
\* attribute is the element's position in the document), and so for every
\* nested array field
ArrayInOrder(d, context, rule, arr) ==
    LET S == evaluate(d, toXPath(Field(rule, "source"), context = documentElement(d)).steps,
                      context).nodes
    IN /\ arr.t = "arr"
       /\ Len(arr.v) = Cardinality(S)
       /\ \A i \in 1..Len(arr.v) : El(IdOf(arr.v[i])) \in S
       /\ \A i, j \in 1..Len(arr.v) : i < j => IdOf(arr.v[i]) < IdOf(arr.v[j])
       /\ \A i \in 1..Len(arr.v) :
            /\ arr.v[i] = processArrayFields(d, El(IdOf(arr.v[i])), FieldsOf(rule))
            /\ \A f \in 1..Len(FieldsOf(rule)) :
                 TypeOf(FieldsOf(rule)[f]) = "array" =>
                   ArrayInOrder(d, El(IdOf(arr.v[i])), FieldsOf(rule)[f],
                                Prop(arr.v[i], JoinStr(DeBracket(Field(FieldsOf(rule)[f], "target")).v)))

\* the array rules whose containers carry their position as id
IdRules == {k \in 1..Len(Rules) : Rules[k] \in {RSets, RPoints}}

\* C3: the array an array rule writes holds one object per matched container
\* element, in source document order, at every nesting depth.
C3_DocumentOrder ==
    \A i \in 1..Len(profile) :
        (profile[i] \in IdRules /\ i \notin failed) =>
            ArrayInOrder(Docs[docIx], documentElement(Docs[docIx]), Rules[profile[i]],
                         AtTarget(result, Rules[profile[i]]))

\* the README's profile shape on a document with two Sets, the first with
\* three Points (set points 10, 20, 30): the arrays hold them in that order
C3_Witness ==
    /\ pc = "done" /\ docIx = 2 /\ profile # <<>> /\ Rules[profile[1]] = RSets
    /\ LET mr == Prop(result, "measurementResults")
       IN /\ Len(mr.v) = 2
          /\ Len(Prop(mr.v[1], "results").v) = 3
          /\ [i \in 1..3 |-> Prop(Prop(mr.v[1], "results").v[i], "setPoint")]
                = <<Int0(10), Int0(20), Int0(30)>>

\* C4 (as claimed): a document and its twin that differs only in the namespace
\* of its elements convert to the same DCC-JSON under every profile.
C4_NamespaceAgnostic == pc = "done" => result = resultNs

RECURSIVE ContainsNaN(_)
ContainsNaN(x) ==
    CASE x.t = "nan" -> TRUE
      [] x.t = "obj" -> \E k \in DOMAIN x.v : ContainsNaN(x.v[k])
      [] x.t = "arr" -> \E i \in 1..Len(x.v) : ContainsNaN(x.v[i])
      [] OTHER -> FALSE

\* C9 (as claimed): no not-a-number value is ever written into the DCC-JSON.
C9_NoNaN == ~ContainsNaN(result)

\* the rule at position i of the profile is the last one with its target
Final(i) ==
    \A j \in (i + 1)..Len(profile) :
        Field(Rules[profile[j]], "target") # Field(Rules[profile[i]], "target")

\* the key is an entry of the map
HasEntry(map, key) == key \in DOMAIN map.v

\* what the lookup of raw in map is to give: null for no raw value, else the
\* entry of raw, else that of raw in lower case, else that of "*", else raw
LookupExpected(map, raw) ==
    IF IsNullish(raw) THEN Null
    ELSE IF HasEntry(map, JoinStr(raw.v)) THEN map.v[JoinStr(raw.v)]
    ELSE IF HasEntry(map, JoinStr(ToLowerCase(raw.v))) THEN map.v[JoinStr(ToLowerCase(raw.v))]
    ELSE IF HasEntry(map, "*") THEN map.v["*"]
    ELSE raw

\* the value a rule is to leave at its target: none for null
Written(val) == IF IsNullish(val) THEN Undef ELSE val

\* C12 (as claimed): a lookup rule yields the map entry of the exact raw
\* value, else the entry of the lowercased raw value, else the entry of "*",
\* else the raw value unchanged.
C12_LookupPrecedence ==
    pc = "done" =>
      \A i \in 1..Len(profile) :
        LET d == Docs[docIx]
            rule == Rules[profile[i]]
        IN (TypeOf(rule) = "lookup" /\ Final(i)) =>
             /\ i \notin failed
             /\ AtTarget(result, rule) =
                  Written(LookupExpected(Field(rule, "map"),
                            resolveRawValue(d, documentElement(d), Field(rule, "source"))))

\* the source of the rule names the context or a path of element steps
ElementSource(source) ==
    \/ ~Truthy(source)
    \/ source.t = "str" /\ \A n \in 1..Len(source.v) : source.v[n].k # "at"

\* an array rule whose elements carry their position as id, and its output
IsIdArray(rule) ==
    /\ TypeOf(rule) = "array"
    /\ FieldsOf(rule) # <<>> /\ FieldsOf(rule)[1] = IdField

\* the value of attribute name of element e, Null when it has none
AttrValue(d, e, name) ==
    IF name \in DOMAIN d.nodes[e.id].attrs THEN Str(d.nodes[e.id].attrs[name]) ELSE Null

\* what a conformity rule is to give for the element (a set, empty for none)
ConformityExpected(d, el) ==
    IF el = {} THEN Null
    ELSE IF AttrValue(d, CHOOSE e \in el : TRUE, "isConform") = Str(True) THEN Pass
    ELSE IF AttrValue(d, CHOOSE e \in el : TRUE, "isConform") = Str(False) THEN Fail
    ELSE Null

\* the element a conformity source names from context
SourceElement(d, context, source) ==
    IF ~Truthy(source) \/ source = Str(<<Dot>>) THEN {context}
    ELSE findFirst(d, context, source).el

\* the conformity field of an item is as the element its source names tells
ConformityHolds(d, context, field, item) ==
    (TypeOf(field) = "conformity" /\ ElementSource(Field(field, "source"))) =>
        Prop(item, TargetKey(Field(field, "target")))
          = Written(ConformityExpected(d, SourceElement(d, context, Field(field, "source"))))

\* every field of the rule is the id, an asFoundAsLeft field or a conformity
\* field on an element
OnlyElementFields(rule) ==
    \A f \in 1..Len(FieldsOf(rule)) :
        \/ FieldsOf(rule)[f] = IdField
        \/ TypeOf(FieldsOf(rule)[f]) = "asFoundAsLeft"
        \/ TypeOf(FieldsOf(rule)[f]) = "conformity"
             /\ ElementSource(Field(FieldsOf(rule)[f], "source"))

\* C13: a conformity rule whose source names an element (the context itself
\* without source or for ".") gives "pass" for isConform="true", "fail" for
\* "false", and no value for any other or no attribute and for no element;
\* as a top-level rule and as a field of an array rule.
C13_Conformity ==
    pc = "done" =>
      \A i \in 1..Len(profile) :
        LET d == Docs[docIx]
            rule == Rules[profile[i]]
        IN /\ (TypeOf(rule) = "conformity" /\ ElementSource(Field(rule, "source")) /\ Final(i)) =>
                /\ i \notin failed
                /\ ConformityHolds(d, documentElement(d), rule, result)
           /\ (IsIdArray(rule) /\ OnlyElementFields(rule) /\ Final(i)) =>
                /\ i \notin failed
                /\ \A j \in 1..Len(AtTarget(result, rule).v) :
                     \A f \in 1..Len(FieldsOf(rule)) :
                        ConformityHolds(d, El(IdOf(AtTarget(result, rule).v[j])),
                                        FieldsOf(rule)[f], AtTarget(result, rule).v[j])

\* the item of the array that was made from the element with this id
ItemOf(arr, id) == arr.v[CHOOSE j \in 1..Len(arr.v) : IdOf(arr.v[j]) = id]

\* the Points with isConform "true", "false", "" and none gave pass, fail and
\* no value; the first Point of a Set gave the Set's value
C13_Witness ==
    /\ pc = "done" /\ docIx = 2 /\ Len(profile) = 2 /\ failed = {}
    /\ Rules[profile[1]] = RConformities /\ Rules[profile[2]] = RSetConformities
    /\ Prop(ItemOf(Prop(result, "results"), 3), "conformity") = Pass
    /\ Prop(ItemOf(Prop(result, "results"), 6), "conformityDot") = Fail
    /\ Prop(ItemOf(Prop(result, "results"), 8), "conformity") = Undef
    /\ Prop(ItemOf(Prop(result, "results"), 11), "conformity") = Undef
    /\ Prop(ItemOf(Prop(result, "results"), 3), "conformityMissing") = Undef
    /\ Prop(ItemOf(Prop(result, "measurementResults"), 2), "conformity") = Pass
    /\ Prop(ItemOf(Prop(result, "measurementResults"), 2), "conformitySix") = Fail

\* the field is the README's { source: "@isConform", type: "conformity" }
IsReadmeConformity(field) ==
    TypeOf(field) = "conformity" /\ Field(field, "source") = Str(<<At("isConform")>>)

\* C14 (as claimed): the README's conformity field in an array rule gives
\* "pass" in the object of a container with isConform="true" and "fail" in
\* that of one with isConform="false".
C14_ReadmeConformity ==
    pc = "done" =>
      \A i \in 1..Len(profile) :
        LET d == Docs[docIx]
            rule == Rules[profile[i]]
        IN (IsIdArray(rule) /\ Final(i)
              /\ \E f \in 1..Len(FieldsOf(rule)) : IsReadmeConformity(FieldsOf(rule)[f])) =>
             /\ i \notin failed
             /\ AtTarget(result, rule).t = "arr"
             /\ \A j \in 1..Len(AtTarget(result, rule).v) :
                  \A f \in 1..Len(FieldsOf(rule)) :
                    IsReadmeConformity(FieldsOf(rule)[f]) =>
                      Prop(AtTarget(result, rule).v[j], TargetKey(Field(FieldsOf(rule)[f], "target")))
                        = Written(ConformityExpected(d, {El(IdOf(AtTarget(result, rule).v[j]))}))

\* what an asFoundAsLeft rule is to give on element e
CategoryExpected(d, e) ==
    IF AttrValue(d, e, "isAsFound") = Str(True) THEN Str(<<"a", "s", "F", "o", "u", "n", "d">>)
    ELSE IF AttrValue(d, e, "isAsLeft") = Str(True) THEN Str(<<"a", "s", "L", "e", "f", "t">>)
    ELSE Null

\* the asFoundAsLeft field of an item is as the attributes of context tell
CategoryHolds(d, context, field, item) ==
    TypeOf(field) = "asFoundAsLeft" =>
        Prop(item, TargetKey(Field(field, "target"))) = Written(CategoryExpected(d, context))

NameOnly(source) ==
    /\ source.t = "str"
    /\ Len(source.v) % 2 = 1
    /\ \A n \in 1..Len(source.v) :
         source.v[n].k = (IF n % 2 = 1 THEN "name" ELSE "slash")

\* the names of such a path
Names(source) == [n \in 1..((Len(source.v) + 1) \div 2) |-> source.v[2 * n - 1].n]

RECURSIVE Chain(_, _, _, _, _)
\* e has the local name names[k], its parent names[k - 1], and so on up to an
\* element of firsts with the name names[1]
Chain(d, e, names, k, firsts) ==
    /\ d.nodes[e.id].name = names[k]
    /\ IF k = 1 THEN e \in firsts
       ELSE /\ d.nodes[e.id].parent # 0
            /\ Chain(d, El(d.nodes[e.id].parent), names, k - 1, firsts)

\* the elements a path of names is to match when its first name may match
\* the elements firsts
Matches(d, names, firsts) ==
    {e \in Elements(d) : Chain(d, e, names, Len(names), firsts)}

\* the direct children of an element
ChildrenOf(d, e) == {c \in Elements(d) : d.nodes[c.id].parent = e.id}

\* the text of the first element of S in document order, Null for none
FirstText(d, S) ==
    IF S = {} THEN Null
    ELSE textContent(d, CHOOSE e \in S : \A o \in S : e.id <= o.id)

\* the ids of the elements of S in document order
IdsInOrder(S) == [j \in 1..Cardinality(S) |-> DocumentOrder(S)[j].id]

\* C16: in a top-level rule the first name of a path matches the elements of
\* that local name anywhere in the document, the root element included, and
\* every later name matches direct children only; a string rule takes the
\* text of the first match in document order (also when the elements are in
\* a namespace), an array rule makes one object per match.
C16_RootPaths ==
    pc = "done" =>
      \A i \in 1..Len(profile) :
        LET d == Docs[docIx]
            rule == Rules[profile[i]]
            S == Matches(d, Names(Field(rule, "source")), Elements(d))
        IN /\ (TypeOf(rule) = "string" /\ NameOnly(Field(rule, "source")) /\ Final(i)) =>
                /\ i \notin failed
                /\ AtTarget(result, rule) = Written(FirstText(d, S))
                /\ AtTarget(resultNs, rule) = Written(FirstText(d, S))
           /\ (IsIdArray(rule) /\ NameOnly(Field(rule, "source")) /\ i \notin failed /\ Final(i)) =>
                [j \in 1..Len(AtTarget(result, rule).v) |-> IdOf(AtTarget(result, rule).v[j])]
                   = IdsInOrder(S)

\* "Type" gave the text of the first Type in document order (a grandchild of
\* the root, before the root's own child Type), "Cal" and "Cal/Cert" matched
\* at the root element, and "Cal/Name" (Name is a grandchild) gave nothing
C16_Witness ==
    /\ pc = "done" /\ docIx = 1 /\ Len(profile) = 3 /\ failed = {}
    /\ Prop(Prop(result, "paths"), "type") = Str(<<"x">>)
    /\ Prop(Prop(result, "paths"), "rootCert") = Str(<<"A", "B", "-", "1">>)
    /\ Rules[profile[3]] = StringRule("rootName", P2("Cal", "Name"))
    /\ Prop(Prop(result, "paths"), "rootName") = Undef

RECURSIVE RelativeHolds(_, _, _, _)
\* the fields of item are those of the container el: a string field on a path
\* of names holds the text of the first match among the chains of children
\* below el, an array field on such a path one object per match, with its
\* fields relative to that match
RelativeHolds(d, el, fields, item) ==
    \A f \in 1..Len(fields) :
      LET field == fields[f]
          S == Matches(d, Names(Field(field, "source")), ChildrenOf(d, el))
          arr == Prop(item, JoinStr(DeBracket(Field(field, "target")).v))
      IN /\ (TypeOf(field) = "string" /\ NameOnly(Field(field, "source"))) =>
              Prop(item, TargetKey(Field(field, "target"))) = Written(FirstText(d, S))
         /\ (TypeOf(field) = "array" /\ NameOnly(Field(field, "source"))) =>
              /\ arr.t = "arr"
              /\ Len(arr.v) = Cardinality(S)
              /\ \A j \in 1..Len(arr.v) :
                   RelativeHolds(d, DocumentOrder(S)[j], FieldsOf(field), arr.v[j])

\* C17 (as claimed): the fields of an array rule are resolved relative to
\* each matched container, at every nesting depth: the first name of a
\* field's path matches direct children of the container only, also when
\* the container is the root element.
C17_RelativeFields ==
    pc = "done" =>
      \A i \in 1..Len(profile) :
        LET d == Docs[docIx]
            rule == Rules[profile[i]]
            S == Matches(d, Names(Field(rule, "source")), Elements(d))
            arr == AtTarget(result, rule)
        IN (TypeOf(rule) = "array" /\ NameOnly(Field(rule, "source"))
              /\ i \notin failed /\ Final(i)) =>
             /\ Len(arr.v) = Cardinality(S)
             /\ \A j \in 1..Len(arr.v) :
                  RelativeHolds(d, DocumentOrder(S)[j], FieldsOf(rule), arr.v[j])

\* the keys of the target path of the rule at position i of the profile
Keys(i) == SplitDot(RemoveFirst(Field(Rules[profile[i]], "target").v, "[]"), "")

\* the rule at position i raised no error and wrote its value
Writes(i) == i \notin failed /\ RootValue[FALSE][docIx][profile[i]].write

IsPrefix(a, b) == Len(a) <= Len(b) /\ SubSeq(b, 1, Len(a)) = a

\* one of two different target paths is a prefix of the other
Collide(a, b) == a # b /\ (IsPrefix(a, b) \/ IsPrefix(b, a))

\* the last position from i on whose rule wrote to the target of rule i
LastWriter(i) ==
    CHOOSE j \in i..Len(profile) :
        /\ Writes(j) /\ Keys(j) = Keys(i)
        /\ \A n \in (j + 1)..Len(profile) : ~(Writes(n) /\ Keys(n) = Keys(i))

\* C18: a value written at a target stays in place, under the intermediate
\* objects of its path, while later rules write to sibling targets (neither
\* path a prefix of the other); of the rules that wrote to one target, the
\* value of the last in profile order is the one present.
C18_Assembly ==
    \A i \in 1..Len(profile) :
        (Writes(i) /\ \A j \in (i + 1)..Len(profile) : Writes(j) => ~Collide(Keys(i), Keys(j))) =>
            AtTarget(result, Rules[profile[i]]) = RootValue[FALSE][docIx][profile[LastWriter(i)]].val

\* coreData.uniqueIdentifier was written, then coreData.lab.name, then
\* coreData.uniqueIdentifier again with another value
C18_Witness ==
    /\ pc = "done" /\ docIx = 1 /\ failed = {} /\ Len(profile) = 3
    /\ Rules[profile[1]] = RCert /\ Rules[profile[2]] = RLabName
    /\ Rules[profile[3]] = RCertAgain
    /\ result = Obj([coreData |-> Obj([uniqueIdentifier |-> Str(<<"O", "K">>),
                                        lab |-> Obj([name |-> Str(<<"c", "o", "n", "s", "t", "r", "u", "c", "t", "o", "r">>)])])])

RECURSIVE Substituted(_, _)
\* the template with every placeholder {i} of a source replaced by vals[i + 1],
\* all placeholders at once
Substituted(template, vals) ==
    IF template = <<>> THEN <<>>
    ELSE IF /\ Len(template) >= 3 /\ template[1] = "{" /\ template[3] = "}"
            /\ IsDigit(template[2]) /\ DigitVal(template[2]) < Len(vals)
         THEN vals[DigitVal(template[2]) + 1] \o Substituted(Drop(template, 3), vals)
    ELSE <<Head(template)>> \o Substituted(Tail(template), vals)

\* the resolved values of the sources of a rule at the root of document d,
\* the empty string for a source without a value
SourceValues(d, rule) ==
    [n \in 1..Len(SourcesOf(rule)) |->
        LET raw == resolveRawValue(d, documentElement(d), SourcesOf(rule)[n])
        IN IF IsNullish(raw) THEN <<>> ELSE raw.v]

\* what a template rule is to yield: null when no source has a value, else
\* the substituted template, trimmed
TemplateExpected(d, rule) ==
    LET vals == SourceValues(d, rule)
    IN IF \A n \in DOMAIN vals : vals[n] = <<>> THEN Null
       ELSE Str(Trim(Substituted(Field(rule, "template").v, vals)))

\* C19 (as claimed): a template rule yields the template with every
\* occurrence of each placeholder {i} replaced by the resolved value of
\* sources[i] (the empty string for a source without a value), trimmed, and
\* null when no source has a non-empty value.
C19_Template ==
    pc = "done" =>
      \A i \in 1..Len(profile) :
        LET rule == Rules[profile[i]]
        IN (TypeOf(rule) = "template" /\ Final(i)) =>
             /\ i \notin failed
             /\ AtTarget(result, rule) = Written(TemplateExpected(Docs[docIx], rule))

\* the source has no value: it names nothing or its text is empty
NoValue(raw) == IsNullish(raw) \/ raw = Str(<<>>)

\* what a boolean rule is to leave for the raw value of its source: nothing
\* for no value, true for "true" and "1", false for any other text
BooleanExpected(raw) ==
    IF NoValue(raw) THEN Undef
    ELSE IF raw = Str(True) \/ raw = Str(<<"1">>) THEN Bool(TRUE)
    ELSE Bool(FALSE)

\* the boolean field of an item made from context is as its source tells
BooleanHolds(d, context, field, item) ==
    TypeOf(field) = "boolean" =>
        Prop(item, TargetKey(Field(field, "target")))
          = BooleanExpected(resolveRawValue(d, context, Field(field, "source")))

\* C20 (amended): a boolean rule whose source resolves to "true" or "1"
\* writes true; one whose source resolves to any other non-empty text, the
\* explicit "false" included, writes false; only a source that is missing
\* or empty leaves the field out.  As a top-level rule and as a field of an
\* array rule.
C20_Boolean ==
    pc = "done" =>
      \A i \in 1..Len(profile) :
        LET d == Docs[docIx]
            rule == Rules[profile[i]]
        IN /\ (TypeOf(rule) = "boolean" /\ Final(i)) =>
                /\ i \notin failed
                /\ AtTarget(result, rule)
                     = BooleanExpected(resolveRawValue(d, documentElement(d), Field(rule, "source")))
           /\ (IsIdArray(rule) /\ i \notin failed /\ Final(i)) =>
                \A j \in 1..Len(AtTarget(result, rule).v) :
                  \A f \in 1..Len(FieldsOf(rule)) :
                     BooleanHolds(d, El(IdOf(AtTarget(result, rule).v[j])),
                                  FieldsOf(rule)[f], AtTarget(result, rule).v[j])

\* the sources with the texts "false" and "1" and a missing source gave
\* false, true and no field
C20_Witness ==
    /\ pc = "done" /\ docIx = 1 /\ failed = {} /\ Len(profile) = 3
    /\ Rules[profile[1]] = Boolean("valid", P1("Valid"))
    /\ Rules[profile[2]] = Boolean("flag", P1("Flag"))
    /\ Rules[profile[3]] = Boolean("missing", P1("Missing"))
    /\ result = Obj([flags |-> Obj([valid |-> Bool(FALSE), flag |-> Bool(TRUE)])])

\* C20 (as claimed): a boolean rule leaves the field out both for a source
\* that resolves to "false" and for a missing or empty source, and writes
\* true for "true" and "1".
C20_FalseOmitted ==
    pc = "done" =>
      \A i \in 1..Len(profile) :
        LET d == Docs[docIx]
            rule == Rules[profile[i]]
            raw == resolveRawValue(d, documentElement(d), Field(rule, "source"))
        IN (TypeOf(rule) = "boolean" /\ Final(i)) =>
             /\ (NoValue(raw) \/ raw = Str(False)) => AtTarget(result, rule) = Undef
             /\ (raw = Str(True) \/ raw = Str(<<"1">>)) => AtTarget(result, rule) = Bool(TRUE)

\* the text starts with four digits, "-", two digits, "-", two digits
StartsWithDate(s) ==
    /\ Len(s) >= 10
    /\ DigitRun(s) = SubSeq(s, 1, 4)
    /\ s[5] = "-" /\ Len(DigitRun(Drop(s, 5))) >= 2
    /\ s[8] = "-" /\ Len(DigitRun(Drop(s, 8))) >= 2

\* what a date rule is to leave for the raw value of its source: nothing for
\* no value, the first ten characters of a text that starts with a date, any
\* other text as it is
DateExpected(raw) ==
    IF NoValue(raw) THEN Undef
    ELSE IF StartsWithDate(raw.v) THEN Str(SubSeq(raw.v, 1, 10))
    ELSE raw

\* C21: the date conversion gives the leading YYYY-MM-DD of a raw text that
\* starts with four digits, "-", two digits, "-", two digits, and any other
\* non-empty raw text unchanged; converting the converted value again gives
\* the same value.
C21_Date ==
    pc = "done" =>
      \A i \in 1..Len(profile) :
        LET d == Docs[docIx]
            rule == Rules[profile[i]]
        IN (TypeOf(rule) = "date" /\ Final(i)) =>
             /\ i \notin failed
             /\ AtTarget(result, rule)
                  = DateExpected(resolveRawValue(d, documentElement(d), Field(rule, "source")))
             /\ AtTarget(result, rule) # Undef =>
                  dateTimeToDate(AtTarget(result, rule)) = AtTarget(result, rule)

\* a date with time zone gave its date, a date without leading zeros and a
\* year of five digits stayed as they are
C21_Witness ==
    /\ pc = "done" /\ docIx = 1 /\ failed = {} /\ Len(profile) = 3
    /\ Rules[profile[1]] = DateRule("stamp", P1("Stamp"))
    /\ Rules[profile[2]] = DateRule("short", P1("Short"))
    /\ Rules[profile[3]] = DateRule("five", P1("Five"))
    /\ result = Obj([dates |-> Obj([
           stamp |-> Str(<<"2", "0", "2", "4", "-", "0", "8", "-", "0", "9">>),
           short |-> Str(<<"2", "0", "2", "4", "-", "8", "-", "9">>),
           five |-> Str(<<"2", "0", "2", "4", "0", "-", "0", "8", "-", "0", "9">>)])])

RECURSIVE ArraysHold(_, _, _, _)
\* every array field among fields has left in item, under its target
\* without "[]", a sequence with one entry per element its source matches
\* from the container el, and so have the array fields of each entry
ArraysHold(d, el, fields, item) ==
    \A f \in 1..Len(fields) :
      LET arr == Prop(item, JoinStr(DeBracket(Field(fields[f], "target")).v))
          els == findElements(d, el, Field(fields[f], "source")).els
      IN TypeOf(fields[f]) = "array" =>
            /\ arr.t = "arr"
            /\ Len(arr.v) = Len(els)
            /\ \A j \in 1..Len(els) : ArraysHold(d, els[j], FieldsOf(fields[f]), arr.v[j])

\* C26: an array rule that raises no error leaves at its target without
\* "[]" a sequence with one entry per container element its source matched,
\* the empty sequence when it matched none, and so does every array field
\* nested in it; a top-level array rule that matches nothing makes its key
\* present with an empty array.
C26_ArrayLength ==
    pc = "done" =>
      \A i \in 1..Len(profile) :
        LET d == Docs[docIx]
            rule == Rules[profile[i]]
            arr == AtTarget(result, rule)
            els == findElements(d, documentElement(d), Field(rule, "source")).els
        IN (TypeOf(rule) = "array" /\ i \notin failed /\ Final(i)) =>
             /\ arr.t = "arr"
             /\ Len(arr.v) = Len(els)
             /\ \A j \in 1..Len(els) : ArraysHold(d, els[j], FieldsOf(rule), arr.v[j])

\* the rule on "Set" matched nothing in the document without Set and left
\* the empty array under measurementResults
C26_Witness ==
    /\ pc = "done" /\ docIx = 1 /\ failed = {} /\ Len(profile) = 1
    /\ Rules[profile[1]] = RSets
    /\ result = Obj([measurementResults |-> Arr(<<>>)])

\* the fields of item other than arrays are those its container el gives:
\* a field whose extraction raises an error is left out, every other field
\* holds its extracted value
FieldsConfined(d, el, fields, item) ==
    \A f \in 1..Len(fields) :
      LET val == extractValue(d, el, fields[f])
      IN TypeOf(fields[f]) # "array" =>
            Prop(item, TargetKey(Field(fields[f], "target")))
              = (IF IsThrow(val) THEN Undef ELSE Written(val))

\* C27 (as claimed): an error raised by one field of an array rule, for any
\* container element, is confined to that field: the rule still writes its
\* array with one object per container, every object holds all its other
\* fields, and only the failing field is left out.
C27_FieldErrorConfined ==
    pc = "done" =>
      \A i \in 1..Len(profile) :
        LET d == Docs[docIx]
            rule == Rules[profile[i]]
            arr == AtTarget(result, rule)
            els == findElements(d, documentElement(d), Field(rule, "source"))
        IN (TypeOf(rule) = "array" /\ Truthy(Field(rule, "target")) /\ ~els.threw /\ Final(i)) =>
             /\ arr.t = "arr"
             /\ Len(arr.v) = Len(els.els)
             /\ \A j \in 1..Len(els.els) :
                  FieldsConfined(d, els.els[j], FieldsOf(rule), arr.v[j])

\* no resolved value of the sources of the rule holds a "$"
NoDollar(d, rule) ==
    \A n \in 1..Len(SourceValues(d, rule)) :
        \A c \in 1..Len(SourceValues(d, rule)[n]) : SourceValues(d, rule)[n][c] # "$"

\* C28 (as claimed): template substitution is simultaneous: the text that
\* enters the result as the value of a source is never read as a placeholder
\* again, so a value "{1}" stands literally in the output and the result is
\* the template with each placeholder replaced by its own source's value
\* (values without "$").
C28_Simultaneous ==
    pc = "done" =>
      \A i \in 1..Len(profile) :
        LET rule == Rules[profile[i]]
        IN (TypeOf(rule) = "template" /\ NoDollar(Docs[docIx], rule) /\ Final(i)) =>
             AtTarget(result, rule) = Written(TemplateExpected(Docs[docIx], rule))

\* C11: when the source text is malformed, the conversion raises its error
\* to the caller before any rule is evaluated: no rule has been read, nothing
\* has been written and no result is returned.
C11_ParseFailure ==
    (docIx # 0 /\ ~Docs[docIx].ok) =>
        /\ pc = "threw"
        /\ profile = <<>> /\ failed = {}
        /\ result = EmptyObj /\ resultNs = EmptyObj

\* the conversion of the malformed text has raised
C11_Witness == pc = "threw" /\ docIx # 0 /\ ~Docs[docIx].ok

---------------------------------------------------------------------------
(* generateDccXml.  The XML text is a sequence of lines, a line a sequence *)
(* of tokens: a piece of markup or of fixed text of the code is one token  *)
(* (none holds a character that esc replaces on its own), a character of   *)
(* input data is one token, and so is an entity written by esc.            *)

RECURSIVE ToStr(_)
RECURSIVE JoinValues(_, _)
\* String(x), also what a template literal `${x}` and Array.prototype.join
\* make of x
ToStr(x) ==
    CASE x.t = "str" -> x.v
      [] x.t = "num" -> NumToStr(x)
      [] x.t = "bool" -> IF x.v THEN <<"true">> ELSE <<"false">>
      [] x.t = "undef" -> <<"undefined">>
      [] x.t = "null" -> <<"null">>
      [] x.t = "nan" -> <<"NaN">>
      [] x.t = "arr" -> JoinValues(x.v, <<",">>)
      [] OTHER -> <<"[object Object]">>

\* parts.join(sep): null and undefined entries give the empty string
JoinValues(parts, sep) ==
    IF parts = <<>> THEN <<>>
    ELSE (IF IsNullish(Head(parts)) THEN <<>> ELSE ToStr(Head(parts)))
         \o (IF Len(parts) > 1 THEN sep \o JoinValues(Tail(parts), sep) ELSE <<>>)

\* String.prototype.replace(/c/g, entity)
ReplaceChar(s, c, entity) == [i \in 1..Len(s) |-> IF s[i] = c THEN entity ELSE s[i]]

\* esc(str), lines 26-33
esc(str) ==
    IF IsNullish(str) THEN <<>>
    ELSE ReplaceChar(ReplaceChar(ReplaceChar(ReplaceChar(ToStr(str),
            "&", "&amp;"), "<", "&lt;"), ">", "&gt;"), "\"", "&quot;")

\* indent(level), line 24
indent(level) == [i \in 1..level |-> "  "]

\* one pushed line: `${indent(level)}...`
Ln(level, toks) == <<indent(level) \o toks>>
\* `${indent(level)}<tag>`
Open(level, tag) == Ln(level, <<"<" \o tag \o ">">>)
\* `${indent(level)}</tag>`
Close(level, tag) == Ln(level, <<"</" \o tag \o ">">>)
\* `${indent(level)}<tag>${content}</tag>`
Elem(level, tag, content) ==
    Ln(level, <<"<" \o tag \o ">">> \o content \o <<"</" \o tag \o ">">>)
\* `${indent(level)}<dcc:content lang="${lang}">${content}</dcc:content>`
Content(level, lang, content) ==
    Ln(level, <<"<dcc:content lang=\"">> \o lang \o <<"\">">> \o content \o <<"</dcc:content>">>)
\* <dcc:name> holding one dcc:content line
Name(level, lang, content) ==
    Open(level, "dcc:name") \o Content(level + 1, lang, content) \o Close(level, "dcc:name")
\* <dcc:name> holding the German and the English fixed text
NameDeEn(level, de, en) ==
    Open(level, "dcc:name") \o Content(level + 1, <<"de">>, <<de>>)
        \o Content(level + 1, <<"en">>, <<en>>) \o Close(level, "dcc:name")
\* one <dcc:identification> block with the fixed names de / en
Identification(level, issuer, value, de, en) ==
    Open(level, "dcc:identification")
        \o Elem(level + 1, "dcc:issuer", <<issuer>>)
        \o Elem(level + 1, "dcc:value", value)
        \o NameDeEn(level + 1, de, en)
        \o Close(level, "dcc:identification")

\* the outcome of a stretch of the generator: the lines and the warnings it
\* pushed, or the error it raised
Out(ls, ws) == [threw |-> FALSE, lines |-> ls, warnings |-> ws]
Thrown == [threw |-> TRUE, lines |-> <<>>, warnings |-> <<>>]
Then(a, b) ==
    IF a.threw \/ b.threw THEN Thrown
    ELSE Out(a.lines \o b.lines, a.warnings \o b.warnings)

RECURSIVE AllOf(_)
\* the outcomes of the iterations of a loop, one after the other
AllOf(outs) == IF outs = <<>> THEN Out(<<>>, <<>>) ELSE Then(Head(outs), AllOf(Tail(outs)))

\* pushes cond ? ls : nothing
If(cond, ls) == IF cond THEN ls ELSE <<>>

\* for (const e of x): the entries, or a TypeError when x is not iterable
Iterable(x) == x.t \in {"arr", "str"}
Entries(x) ==
    CASE x.t = "arr" -> x.v
      [] x.t = "str" -> [i \in 1..Len(x.v) |-> Str(<<x.v[i]>>)]
      [] OTHER -> <<>>

\* x.length > 0 and x.length === 0
LengthPositive(x) == Prop(x, "length").t = "num" /\ Prop(x, "length").n > 0
LengthZero(x) == Prop(x, "length") = Int0(0)

\* lines 36 and 38: the language and the country of the certificate
langOf(d) == Or(OptProp(Prop(d, "coreData"), "languageCode"), Str(<<"de">>))
countryOf(d) == Or(OptProp(Prop(d, "coreData"), "countryCodeISO3166_1"), Str(<<"DE">>))

\* lines 10-13
DCC_NS == "https://ptb.de/dcc"
SI_NS == "https://ptb.de/si"
DCC_SCHEMA_VERSION == "3.3.0"
DCC_SCHEMA_LOCATION == "https://ptb.de/dcc/v3.3.0/dcc.xsd"

\* lines 41-63: XML declaration, root element, dcc:dccSoftware
Preamble ==
    <<<<"<?xml version=\"1.0\" encoding=\"UTF-8\"?>">>,
      <<"<dcc:digitalCalibrationCertificate">>,
      <<"  xmlns:dcc=\"" \o DCC_NS \o "\"">>,
      <<"  xmlns:si=\"" \o SI_NS \o "\"">>,
      <<"  xmlns:xsi=\"http://www.w3.org/2001/XMLSchema-instance\"">>,
      <<"  xsi:schemaLocation=\"" \o DCC_NS \o " " \o DCC_SCHEMA_LOCATION \o "\"">>,
      <<"  schemaVersion=\"" \o DCC_SCHEMA_VERSION \o "\">">>>>
    \o Open(1, "dcc:administrativeData")
    \o Open(2, "dcc:dccSoftware")
    \o Open(3, "dcc:software")
    \o Name(4, <<"en">>, <<"PDF-to-DCC Converter">>)
    \o Elem(4, "dcc:release", <<"1.0.0">>)
    \o Elem(4, "dcc:type", <<"application">>)
    \o Close(3, "dcc:software")
    \o Close(2, "dcc:dccSoftware")

\* lines 66-126: dcc:coreData
coreData(d) ==
    LET core == Prop(d, "coreData")
        lang == langOf(d)
        uniqueId == OptProp(core, "uniqueIdentifier")
        mark == OptProp(core, "calibrationMark")
        order == OptProp(core, "orderNumber")
        previous == OptProp(core, "previousReport")
        beginDate == OptProp(core, "beginPerformanceDate")
        endDate == Or(OptProp(core, "endPerformanceDate"), beginDate)
        perfLocation == Or(OptProp(core, "performanceLocation"), Str(<<"laboratory">>))
        orderId == Identification(4, "customer", esc(order), "Auftragsnummer", "Order number")
    IN Out(Open(2, "dcc:coreData")
           \o Elem(3, "dcc:countryCodeISO3166_1", esc(countryOf(d)))
           \o Elem(3, "dcc:usedLangCodeISO639_1", esc(lang))
           \o Elem(3, "dcc:mandatoryLangCodeISO639_1", esc(lang))
           \o Elem(3, "dcc:uniqueIdentifier", esc(Or(uniqueId, Str(<<"UNKNOWN">>))))
           \o (IF Truthy(mark)
               THEN Open(3, "dcc:identifications")
                    \o Identification(4, "calibrationLaboratory", esc(mark),
                                      "Kalibrierzeichen", "Calibration mark")
                    \o If(Truthy(order), orderId)
                    \o Close(3, "dcc:identifications")
               ELSE If(Truthy(order),
                       Open(3, "dcc:identifications") \o orderId
                           \o Close(3, "dcc:identifications")))
           \o If(Truthy(previous),
                 Open(3, "dcc:previousReport") \o Open(4, "dcc:report")
                     \o Elem(5, "dcc:value", esc(previous))
                     \o Close(4, "dcc:report") \o Close(3, "dcc:previousReport"))
           \o Elem(3, "dcc:beginPerformanceDate", esc(Or(beginDate, Str(<<"1970-01-01">>))))
           \o Elem(3, "dcc:endPerformanceDate", esc(Or(endDate, Str(<<"1970-01-01">>))))
           \o Elem(3, "dcc:performanceLocation", esc(perfLocation))
           \o Close(2, "dcc:coreData"),
           If(~Truthy(uniqueId), <<"Zertifikatsnummer (uniqueIdentifier) fehlt.">>)
           \o If(~Truthy(beginDate), <<"Kalibrierdatum (beginPerformanceDate) fehlt.">>))

\* `prefix${v}` pushed when v is truthy
Part(prefix, v) == If(Truthy(v), <<Str(<<prefix>> \o ToStr(v))>>)

\* x.map(f) raises a TypeError: x has no map, or f reads a property of a
\* null entry
MapThrows(x) == x.t # "arr" \/ \E i \in 1..Len(x.v) : IsNullish(x.v[i])

\* x && x.length > 0
NonEmpty(x) == Truthy(x) /\ LengthPositive(x)

\* lines 234-241: item.calibrationFactors*.map(c => c.value).join(', ')
Factors(prefix, x) ==
    If(NonEmpty(x),
       <<Str(<<prefix>> \o JoinValues([i \in 1..Len(x.v) |-> Prop(x.v[i], "value")], <<", ">>))>>)

\* lines 223-242: descParts of an item
descParts(item) ==
    LET mc == Prop(item, "mediumConditions")
    IN If(Truthy(Prop(item, "description")), <<Prop(item, "description")>>)
       \o Part("Messparameter: ", Prop(item, "parameter"))
       \o Part("Messbereich: ", Prop(item, "measuringRange"))
       \o Part("Signalausgang: ", Prop(item, "signalOutput"))
       \o Part("Kalibrierbereich: ", Prop(item, "calibrationRange"))
       \o Part("Medium: ", Prop(item, "medium"))
       \o If(NonEmpty(mc),
             <<Str(<<"Mediumbedingungen: ">>
                   \o JoinValues([i \in 1..Len(mc.v) |->
                          Str(ToStr(Prop(mc.v[i], "name")) \o <<": ">>
                              \o ToStr(Prop(mc.v[i], "value")))], <<", ">>))>>)
       \o Factors("Kalibrierfaktoren (As Found): ", Prop(item, "calibrationFactorsAsFound"))
       \o Factors("Kalibrierfaktoren (As Left): ", Prop(item, "calibrationFactorsAsLeft"))
       \o Part("MPE: ", Prop(item, "mpe"))

\* lines 132-250: one dcc:item of the loop over items
\* no item is taken to lack its identifications
NeverWithoutId(item) == FALSE

\* !item.serialNumber && !item.inventoryNumber && !item.equipmentNumber
\*   && !item.testEquipmentNumber && !item.tagNumber
WithoutId(item) ==
    \A k \in {"serialNumber", "inventoryNumber", "equipmentNumber", "testEquipmentNumber",
               "tagNumber"} : ~Truthy(Prop(item, k))

itemOf(item, lang) ==
    LET has(k) == Truthy(Prop(item, k))
        noId == WithoutId(item)
        id(k, issuer, de, en) ==
            If(has(k), Identification(5, issuer, esc(Prop(item, k)), de, en))
        maps == {Prop(item, "mediumConditions"), Prop(item, "calibrationFactorsAsFound"),
                 Prop(item, "calibrationFactorsAsLeft")}
    IN IF IsNullish(item) THEN Thrown
       ELSE IF \E x \in maps : NonEmpty(x) /\ MapThrows(x) THEN Thrown
       ELSE Out(
           Open(3, "dcc:item")
           \o Name(4, esc(lang), esc(Or(Prop(item, "name"), Str(<<"Prüfling">>))))
           \o If(has("manufacturer"),
                 Open(4, "dcc:manufacturer")
                     \o Name(5, esc(lang), esc(Prop(item, "manufacturer")))
                     \o Close(4, "dcc:manufacturer"))
           \o If(has("model"), Elem(4, "dcc:model", esc(Prop(item, "model"))))
           \o Open(4, "dcc:identifications")
           \o id("serialNumber", "manufacturer", "Seriennummer", "Serial number")
           \o id("inventoryNumber", "customer", "Inventarnummer", "Inventory number")
           \o id("equipmentNumber", "customer", "Equipment-Nr.", "Equipment number")
           \o id("testEquipmentNumber", "calibrationLaboratory", "Prüfmittel-Nr.",
                 "Test equipment number")
           \o id("tagNumber", "customer", "Tag-Nr.", "Tag number")
           \o If(noId,
                 Open(5, "dcc:identification")
                     \o Elem(6, "dcc:issuer", <<"other">>)
                     \o Elem(6, "dcc:value", <<"N/A">>)
                     \o Name(6, esc(lang), <<"Kennung">>)
                     \o Close(5, "dcc:identification"))
           \o Close(4, "dcc:identifications")
           \o If(descParts(item) # <<>>,
                 Open(4, "dcc:description")
                     \o Content(5, esc(lang), esc(Str(JoinValues(descParts(item), <<"; ">>))))
                     \o Close(4, "dcc:description"))
           \o Close(3, "dcc:item"),
           If(noId, <<"Keine Seriennummer oder Inventarnummer gefunden.">>))

\* lines 256-286: one accessory as an additional dcc:item
accessoryOf(acc, lang) ==
    LET type == Prop(acc, "type")
        description == Prop(acc, "description")
        serial == Prop(acc, "serialNumber")
    IN IF IsNullish(acc) THEN Thrown
       ELSE Out(
           Open(3, "dcc:item")
           \o Name(4, esc(lang), esc(Or(Or(description, type), Str(<<"Zubehör">>))))
           \o Open(4, "dcc:identifications")
           \o (IF Truthy(serial)
               THEN Identification(5, "manufacturer", esc(serial), "Seriennummer", "Serial number")
               ELSE Identification(5, "other", esc(Or(type, Str(<<"N/A">>))), "Typ", "Type"))
           \o Close(4, "dcc:identifications")
           \o If(Truthy(description) /\ Truthy(type),
                 Open(4, "dcc:description")
                     \o Content(5, esc(lang), <<"Zubehör/Komponente: ">> \o esc(type))
                     \o Close(4, "dcc:description"))
           \o Close(3, "dcc:item"),
           <<>>)

\* the loop `for (const e of x) body(e)` given the outcomes of its iterations
Loop(x, outs) == IF ~Iterable(x) THEN Thrown ELSE AllOf(outs)

\* lines 129-289: dcc:items, from data.items and data.accessories
items(d) ==
    LET its == Or(Prop(d, "items"), Arr(<<EmptyObj>>))
        accessories == Or(Prop(d, "accessories"), Arr(<<>>))
    IN Then(Out(Open(2, "dcc:items"), <<>>),
       Then(Loop(its, [i \in 1..Len(Entries(its)) |-> itemOf(Entries(its)[i], langOf(d))]),
       Then(Loop(accessories, [i \in 1..Len(Entries(accessories)) |->
                                  accessoryOf(Entries(accessories)[i], langOf(d))]),
            Out(Close(2, "dcc:items"), <<>>))))

\* `<tag>${esc(x[key])}</tag>` pushed when x[key] is truthy
Optional(level, tag, x, key) ==
    If(Truthy(Prop(x, key)), Elem(level, tag, esc(Prop(x, key))))

\* lines 292-322: dcc:calibrationLaboratory
calibrationLaboratory(d) ==
    LET lab == Or(Prop(d, "calibrationLaboratory"), EmptyObj)
        lang == esc(langOf(d))
    IN Out(Open(2, "dcc:calibrationLaboratory")
           \o Optional(3, "dcc:calibrationLaboratoryCode", lab, "calibrationLaboratoryCode")
           \o Open(3, "dcc:contact")
           \o Name(4, lang, esc(Or(Prop(lab, "name"), Str(<<"Kalibrierlaboratorium">>))))
           \o Optional(4, "dcc:eMail", lab, "eMail")
           \o Optional(4, "dcc:phone", lab, "phone")
           \o Optional(4, "dcc:fax", lab, "fax")
           \o Open(4, "dcc:location")
           \o Optional(5, "dcc:street", lab, "street")
           \o Optional(5, "dcc:postCode", lab, "postCode")
           \o Optional(5, "dcc:city", lab, "city")
           \o Elem(5, "dcc:countryCode", esc(Or(Prop(lab, "country"), countryOf(d))))
           \o Close(4, "dcc:location")
           \o Close(3, "dcc:contact")
           \o Close(2, "dcc:calibrationLaboratory"),
           <<>>)

\* lines 338-350: one dcc:respPerson of the loop over persons
respPersonOf(person, lang) ==
    IF IsNullish(person) THEN Thrown
    ELSE Out(Open(3, "dcc:respPerson")
             \o Open(4, "dcc:person")
             \o Name(5, lang, esc(Prop(person, "name")))
             \o Close(4, "dcc:person")
             \o Optional(4, "dcc:role", person, "role")
             \o If(Truthy(Prop(person, "isMainSigner")),
                   Elem(4, "dcc:mainSigner", <<"true">>))
             \o Close(3, "dcc:respPerson"),
             <<>>)

\* lines 325-353: dcc:respPersons
respPersons(d) ==
    LET persons == Or(Prop(d, "respPersons"), Arr(<<>>))
        lang == esc(langOf(d))
    IN Then(Out(Open(2, "dcc:respPersons"), <<>>),
       Then(IF LengthZero(persons)
            THEN Out(Open(3, "dcc:respPerson")
                     \o Open(4, "dcc:person")
                     \o Name(5, lang, <<"Nicht angegeben">>)
                     \o Close(4, "dcc:person")
                     \o Close(3, "dcc:respPerson"),
                     <<"Keine verantwortliche Person gefunden.">>)
            ELSE Loop(persons, [i \in 1..Len(Entries(persons)) |->
                                   respPersonOf(Entries(persons)[i], lang)]),
            Out(Close(2, "dcc:respPersons"), <<>>)))

\* lines 356-379: dcc:customer
customer(d) ==
    LET cust == Or(Prop(d, "customer"), EmptyObj)
        contact == Prop(cust, "contactPerson")
    IN Out(Open(2, "dcc:customer")
           \o Name(3, esc(langOf(d)), esc(Or(Prop(cust, "name"), Str(<<"Auftraggeber">>))))
           \o Optional(3, "dcc:eMail", cust, "eMail")
           \o Optional(3, "dcc:phone", cust, "phone")
           \o Open(3, "dcc:location")
           \o Optional(4, "dcc:street", cust, "street")
           \o Optional(4, "dcc:postCode", cust, "postCode")
           \o Optional(4, "dcc:city", cust, "city")
           \o Elem(4, "dcc:countryCode", esc(Or(Prop(cust, "country"), countryOf(d))))
           \o Close(3, "dcc:location")
           \o If(Truthy(contact),
                 Open(3, "dcc:description")
                     \o Content(4, <<"de">>, <<"Ansprechpartner: ">> \o esc(contact))
                     \o Content(4, <<"en">>, <<"Contact person: ">> \o esc(contact))
                     \o Close(3, "dcc:description"))
           \o Close(2, "dcc:customer"),
           <<>>)

\* lines 386-406: one dcc:statement of the loop over statements
statementOf(stmt, lang) ==
    LET stmtDescParts ==
            If(Truthy(Prop(stmt, "description")), <<Prop(stmt, "description")>>)
            \o Part("Entscheidungsregel: ", Prop(stmt, "decisionRule"))
            \o Part("Konformitätswahrscheinlichkeit: ", Prop(stmt, "conformityProbability"))
            \o Part("Norm: ", Prop(stmt, "norm"))
    IN IF IsNullish(stmt) THEN Thrown
       ELSE Out(Open(3, "dcc:statement")
                \o If(Truthy(Prop(stmt, "name")), Name(4, lang, esc(Prop(stmt, "name"))))
                \o If(stmtDescParts # <<>>,
                      Open(4, "dcc:description")
                          \o Content(5, lang, esc(Str(JoinValues(stmtDescParts, <<"\n">>))))
                          \o Close(4, "dcc:description"))
                \o Optional(4, "dcc:conformity", stmt, "conformity")
                \o Close(3, "dcc:statement"),
                <<>>)

\* lines 382-423: dcc:statements and the end of dcc:administrativeData
statements(d) ==
    LET stmts == Or(Prop(d, "statements"), Arr(<<>>))
        remarks == Prop(d, "remarks")
        lang == esc(langOf(d))
    IN Then(IF LengthPositive(stmts) \/ Truthy(remarks)
            THEN Then(Out(Open(2, "dcc:statements"), <<>>),
                 Then(Loop(stmts, [i \in 1..Len(Entries(stmts)) |->
                                      statementOf(Entries(stmts)[i], lang)]),
                      Out(If(Truthy(remarks),
                             Open(3, "dcc:statement")
                                 \o NameDeEn(4, "Bemerkungen", "Remarks")
                                 \o Open(4, "dcc:description")
                                 \o Content(5, lang, esc(remarks))
                                 \o Close(4, "dcc:description")
                                 \o Close(3, "dcc:statement"))
                          \o Close(2, "dcc:statements"),
                          <<>>)))
            ELSE Out(<<>>, <<>>),
            Out(Close(1, "dcc:administrativeData"), <<>>))

\* lines 435-505: one dcc:measuringEquipment of the loop over equipments
measuringEquipmentOf(equip, lang) ==
    LET has(k) == Truthy(Prop(equip, k))
        hasEquipId == has("serialNumber") \/ has("certificateNumber")
                      \/ has("equipmentNumber") \/ has("calibrationMark")
        id(k, issuer, de, en) ==
            If(has(k), Identification(5, issuer, esc(Prop(equip, k)), de, en))
        equipDescParts ==
            Part("Rückführung: ", Prop(equip, "traceability"))
            \o Part("Kalibrierdatum: ", Prop(equip, "calibrationDate"))
            \o Part("Nächste Kalibrierung: ", Prop(equip, "nextCalibrationDate"))
    IN IF IsNullish(equip) THEN Thrown
       ELSE Out(Open(3, "dcc:measuringEquipment")
                \o Name(4, lang, esc(Prop(equip, "name")))
                \o If(has("manufacturer"),
                      Open(4, "dcc:manufacturer")
                          \o Name(5, lang, esc(Prop(equip, "manufacturer")))
                          \o Close(4, "dcc:manufacturer"))
                \o Optional(4, "dcc:model", equip, "model")
                \o If(hasEquipId,
                      Open(4, "dcc:identifications")
                          \o id("serialNumber", "manufacturer", "Seriennummer", "Serial number")
                          \o id("equipmentNumber", "calibrationLaboratory", "Equipment-Nr.",
                                "Equipment number")
                          \o id("certificateNumber", "calibrationLaboratory",
                                "Kalibrierzertifikat-Nr.", "Calibration certificate number")
                          \o id("calibrationMark", "calibrationLaboratory", "Kalibrierzeichen",
                                "Calibration mark")
                          \o Close(4, "dcc:identifications"))
                \o If(equipDescParts # <<>>,
                      Open(4, "dcc:description")
                          \o Content(5, lang, esc(Str(JoinValues(equipDescParts, <<"; ">>))))
                          \o Close(4, "dcc:description"))
                \o Close(3, "dcc:measuringEquipment"),
                <<>>)

\* lines 428-508: the start of dcc:measurementResults and dcc:measuringEquipments
measuringEquipments(d) ==
    LET equipments == Or(Prop(d, "measuringEquipments"), Arr(<<>>))
        lang == esc(langOf(d))
    IN Then(Out(Open(1, "dcc:measurementResults"), <<>>),
            IF LengthPositive(equipments)
            THEN Then(Out(Open(2, "dcc:measuringEquipments"), <<>>),
                 Then(Loop(equipments, [i \in 1..Len(Entries(equipments)) |->
                                           measuringEquipmentOf(Entries(equipments)[i], lang)]),
                      Out(Close(2, "dcc:measuringEquipments"), <<>>)))
            ELSE Out(<<>>, <<>>))

\* <si:real> of a quantity: the value as the template literal writes it, the
\* unit through esc, then what follows them inside si:real
Real(level, value, unit, more) ==
    Open(level, "si:real")
        \o Elem(level + 1, "si:value", ToStr(value))
        \o Elem(level + 1, "si:unit", esc(unit))
        \o more
        \o Close(level, "si:real")

\* <dcc:quantity><dcc:noQuantity/></dcc:quantity>
NoQuantity(level) ==
    Open(level, "dcc:quantity") \o Ln(level + 1, <<"<dcc:noQuantity/>">>)
        \o Close(level, "dcc:quantity")

\* a range as soon as one of min and max is given
EitherGiven(min, max) == ~IsNullish(min) \/ ~IsNullish(max)

\* cond.min != null && cond.max != null
BothGiven(min, max) == ~IsNullish(min) /\ ~IsNullish(max)

\* lines 585-630: one dcc:influenceCondition of the loop over conditions
influenceConditionOf(cond, lang) ==
    LET unit == Or(Prop(cond, "unit"), Str(<<>>))
        min == Prop(cond, "min")
        max == Prop(cond, "max")
        value == Prop(cond, "value")
        uncertainty == Prop(cond, "uncertainty")
    IN IF IsNullish(cond) THEN Thrown
       ELSE Out(Open(4, "dcc:influenceCondition")
                \o Name(5, lang, esc(Prop(cond, "name")))
                \o Open(5, "dcc:data")
                \o (IF BothGiven(min, max)
                    THEN Open(6, "dcc:quantity")
                         \o Name(7, <<"de">>, <<"Minimum">>)
                         \o Real(7, min, unit, <<>>)
                         \o Close(6, "dcc:quantity")
                         \o Open(6, "dcc:quantity")
                         \o Name(7, <<"de">>, <<"Maximum">>)
                         \o Real(7, max, unit, <<>>)
                         \o Close(6, "dcc:quantity")
                    ELSE IF ~IsNullish(value)
                    THEN Open(6, "dcc:quantity")
                         \o Real(7, value, unit,
                                 If(~IsNullish(uncertainty),
                                    Open(8, "si:expandedUnc")
                                        \o Elem(9, "si:uncertainty", ToStr(uncertainty))
                                        \o Elem(9, "si:coverageFactor", <<"2">>)
                                        \o Elem(9, "si:coverageProbability", <<"0.95">>)
                                        \o Close(8, "si:expandedUnc")))
                         \o Close(6, "dcc:quantity")
                    ELSE NoQuantity(6))
                \o Close(5, "dcc:data")
                \o Close(4, "dcc:influenceCondition"),
                <<>>)

\* a <dcc:quantity refType="..."> of a result point with its two names
Quantity(refType, de, en, body) ==
    Ln(7, <<"<dcc:quantity refType=\"" \o refType \o "\">">>)
        \o NameDeEn(8, de, en) \o body \o Close(7, "dcc:quantity")

\* typeof tolerance === 'number' ? -Math.abs(tolerance) : tolerance (sign = -1)
\* and ... ? Math.abs(tolerance) : tolerance (sign = 1)
Limit(tolerance, sign) ==
    IF tolerance.t = "num"
    THEN (IF sign < 0 THEN Num(0 - Abs(tolerance).n, tolerance.d) ELSE Abs(tolerance))
    ELSE tolerance

\* lines 658-774: one dcc:list of the loop over the results of a group
resultOf(r, lang) ==
    LET P(k) == Prop(r, k)
        nomVal == Coalesce(P("nominalValue"), P("referenceValue"))
        nomUnit == Or(Or(Or(P("nominalUnit"), P("referenceUnit")), P("measuredUnit")), Str(<<>>))
        tolerance == Coalesce(P("allowedDeviation"), P("mpe"))
        toleranceUnit ==
            Or(Or(Or(P("allowedDeviationUnit"), P("mpeUnit")), P("measuredUnit")), Str(<<>>))
    IN IF IsNullish(r) THEN Thrown
       ELSE Out(Open(6, "dcc:list")
                \o If(Truthy(P("name")), Name(7, lang, esc(P("name"))))
                \o If(~IsNullish(P("setPoint")),
                      Quantity("basic_setPoint", "Sollwert", "Set point",
                               Real(8, P("setPoint"),
                                    Or(Or(P("setPointUnit"), P("nominalUnit")), Str(<<>>)), <<>>)))
                \o If(~IsNullish(nomVal),
                      Quantity("basic_referenceValue", "Bezugswert", "Reference value",
                               Real(8, nomVal, nomUnit, <<>>)))
                \o If(~IsNullish(P("measuredValue")),
                      Quantity("basic_measuredValue", "Messwert", "Measured value",
                               Real(8, P("measuredValue"), Or(P("measuredUnit"), Str(<<>>)),
                                    If(~IsNullish(P("uncertainty")),
                                       Open(9, "si:expandedUnc")
                                           \o Elem(10, "si:uncertainty", ToStr(P("uncertainty")))
                                           \o If(~IsNullish(P("coverageFactor")),
                                                 Elem(10, "si:coverageFactor",
                                                      ToStr(P("coverageFactor"))))
                                           \o If(~IsNullish(P("coverageProbability")),
                                                 Elem(10, "si:coverageProbability",
                                                      ToStr(P("coverageProbability"))))
                                           \o Close(9, "si:expandedUnc")))))
                \o If(~IsNullish(P("deviation")),
                      Quantity("basic_measurementError", "Abweichung", "Deviation",
                               Real(8, P("deviation"),
                                    Or(Or(P("deviationUnit"), P("measuredUnit")), Str(<<>>)), <<>>)))
                \o If(~IsNullish(tolerance),
                      Quantity("basic_acceptanceLimitLower", "Zul. Abweichung (untere)",
                               "Acceptance limit (lower)",
                               Real(8, Limit(tolerance, -1), toleranceUnit, <<>>))
                      \o Quantity("basic_acceptanceLimitUpper", "Zul. Abweichung (obere)",
                                  "Acceptance limit (upper)",
                                  Real(8, Limit(tolerance, 1), toleranceUnit, <<>>)))
                \o If(Truthy(P("conformity")),
                      Quantity("basic_conformity", "Bewertung", "Conformity",
                               Open(8, "dcc:noQuantity")
                                   \o Content(9, lang, esc(P("conformity")))
                                   \o Close(8, "dcc:noQuantity")))
                \o Close(6, "dcc:list"),
                <<>>)

\* lines 565-575: one dcc:usedMethod of the loop over methods
usedMethodOf(method, lang) ==
    IF IsNullish(method) THEN Thrown
    ELSE Out(Open(4, "dcc:usedMethod")
             \o Name(5, lang, esc(Prop(method, "name")))
             \o If(Truthy(Prop(method, "description")),
                   Open(5, "dcc:description")
                       \o Content(6, lang, esc(Prop(method, "description")))
                       \o Close(5, "dcc:description"))
             \o Close(4, "dcc:usedMethod"),
             <<>>)

\* lines 520-529 and 639-648: the placeholder dcc:result without quantity
PlaceholderResult(lang) ==
    Open(4, "dcc:result")
        \o Name(5, lang, <<"Ergebnis">>)
        \o Open(5, "dcc:data")
        \o NoQuantity(6)
        \o Close(5, "dcc:data")
        \o Close(4, "dcc:result")

\* lines 534-782: one dcc:measurementResult of the loop over measurementResults
measurementResultOf(mr, lang) ==
    LET mrDescParts ==
            If(Truthy(Prop(mr, "description")), <<Prop(mr, "description")>>)
            \o If(Truthy(Prop(mr, "calibrationProcedure")), <<Prop(mr, "calibrationProcedure")>>)
            \o Part("Referenzmaterial: ", Prop(mr, "referenceStandard"))
            \o Part("Entscheidungsregel: ", Prop(mr, "decisionRule"))
        methods == Or(Prop(mr, "usedMethods"), Arr(<<>>))
        conditions == Or(Prop(mr, "influenceConditions"), Arr(<<>>))
        results == Or(Prop(mr, "results"), Arr(<<>>))
    IN IF IsNullish(mr) THEN Thrown
       ELSE
       Then(Out(Open(2, "dcc:measurementResult")
                \o Name(3, lang, esc(Or(Prop(mr, "name"), Str(<<"Messergebnis">>))))
                \o If(mrDescParts # <<>>,
                      Open(3, "dcc:description")
                          \o Content(4, lang, esc(Str(JoinValues(mrDescParts, <<"\n\n">>))))
                          \o Close(3, "dcc:description")),
                <<>>),
       Then(IF Truthy(Prop(mr, "method")) \/ LengthPositive(methods)
            THEN Then(Out(Open(3, "dcc:usedMethods")
                          \o If(Truthy(Prop(mr, "method")),
                                Open(4, "dcc:usedMethod")
                                    \o Name(5, lang, esc(Prop(mr, "method")))
                                    \o Close(4, "dcc:usedMethod")),
                          <<>>),
                 Then(Loop(methods, [i \in 1..Len(Entries(methods)) |->
                                        usedMethodOf(Entries(methods)[i], lang)]),
                      Out(Close(3, "dcc:usedMethods"), <<>>)))
            ELSE Out(<<>>, <<>>),
       Then(IF LengthPositive(conditions)
            THEN Then(Out(Open(3, "dcc:influenceConditions"), <<>>),
                 Then(Loop(conditions, [i \in 1..Len(Entries(conditions)) |->
                                           influenceConditionOf(Entries(conditions)[i], lang)]),
                      Out(Close(3, "dcc:influenceConditions"), <<>>)))
            ELSE Out(<<>>, <<>>),
       Then(Out(Open(3, "dcc:results"), <<>>),
       Then(IF LengthZero(results)
            THEN Out(PlaceholderResult(lang), <<>>)
            ELSE Then(Out(Open(4, "dcc:result")
                          \o Name(5, lang, esc(Or(Prop(mr, "name"),
                                                  Str(<<"Kalibrierergebnisse">>))))
                          \o Open(5, "dcc:data"),
                          <<>>),
                 Then(Loop(results, [i \in 1..Len(Entries(results)) |->
                                        resultOf(Entries(results)[i], lang)]),
                      Out(Close(5, "dcc:data") \o Close(4, "dcc:result"), <<>>))),
            Out(Close(3, "dcc:results") \o Close(2, "dcc:measurementResult"), <<>>))))))

\* lines 511-786: the dcc:measurementResult elements and the end of
\* dcc:measurementResults
measurementResults(d) ==
    LET mrs == Or(Prop(d, "measurementResults"), Arr(<<>>))
        lang == esc(langOf(d))
    IN Then(IF LengthZero(mrs)
            THEN Out(Open(2, "dcc:measurementResult")
                     \o Name(3, lang, <<"Messergebnis">>)
                     \o Open(3, "dcc:results")
                     \o PlaceholderResult(lang)
                     \o Close(3, "dcc:results")
                     \o Close(2, "dcc:measurementResult"),
                     <<"Keine Messergebnisse gefunden.">>)
            ELSE Loop(mrs, [i \in 1..Len(Entries(mrs)) |->
                               measurementResultOf(Entries(mrs)[i], lang)]),
            Out(Close(1, "dcc:measurementResults"), <<>>))

\* [...].filter(Boolean)
FilterBoolean(parts) == SelectSeq(parts, Truthy)

\* lines 789-813: dcc:comment and the end of the root element
comment(d) ==
    LET sops == Or(Prop(d, "calibrationSOPs"), Arr(<<>>))
        calLocation == Prop(d, "calibrationLocation")
        locParts == FilterBoolean(<<
            Prop(calLocation, "name"),
            Prop(calLocation, "street"),
            Str(Trim(ToStr(Or(Prop(calLocation, "postCode"), Str(<<>>))) \o <<" ">>
                     \o ToStr(Or(Prop(calLocation, "city"), Str(<<>>))))),
            Prop(calLocation, "country")>>)
        sopStr == JoinValues([i \in 1..Len(sops.v) |->
                      Str(ToStr(Prop(sops.v[i], "sopNumber")) \o <<": ">>
                          \o ToStr(Or(Prop(sops.v[i], "description"), Str(<<>>))))], <<"\n">>)
        commentParts ==
            If(Truthy(calLocation),
               <<Str(<<"Kalibrierort: ">> \o JoinValues(locParts, <<", ">>))>>)
            \o If(LengthPositive(sops), <<Str(<<"Kalibrierverfahren (SOPs):\n">> \o sopStr)>>)
    IN Then(IF LengthPositive(sops) \/ Truthy(calLocation)
            THEN IF LengthPositive(sops) /\ MapThrows(sops) THEN Thrown
                 ELSE Out(Open(1, "dcc:comment")
                          \o NameDeEn(2, "Zusätzliche Informationen", "Additional information")
                          \o Open(2, "dcc:description")
                          \o Content(3, esc(langOf(d)),
                                     esc(Str(JoinValues(commentParts, <<"\n\n">>))))
                          \o Close(2, "dcc:description")
                          \o Close(1, "dcc:comment"),
                          <<>>)
            ELSE Out(<<>>, <<>>),
            Out(<<<<"</dcc:digitalCalibrationCertificate>">>>>, <<>>))

RECURSIVE JoinLines(_)
\* lines.join('\n'), line 815 (the list is joined by halves)
JoinLines(ls) ==
    IF ls = <<>> THEN <<>>
    ELSE IF Len(ls) = 1 THEN ls[1]
    ELSE LET h == Len(ls) \div 2
         IN JoinLines(SubSeq(ls, 1, h)) \o <<"\n">> \o JoinLines(SubSeq(ls, h + 1, Len(ls)))

\* lines 823-852: validateData(data)
validateData(d) ==
    LET absent(k) == ~Truthy(Prop(d, k)) \/ LengthZero(Prop(d, k))
    IN If(~Truthy(OptProp(Prop(d, "coreData"), "uniqueIdentifier")),
          <<"Zertifikatsnummer fehlt.">>)
       \o If(~Truthy(OptProp(Prop(d, "coreData"), "beginPerformanceDate")),
             <<"Kalibrierdatum fehlt.">>)
       \o If(~Truthy(OptProp(Prop(d, "calibrationLaboratory"), "name")),
             <<"Name des Kalibrierlaboratoriums fehlt.">>)
       \o If(~Truthy(OptProp(Prop(d, "customer"), "name")),
             <<"Name des Auftraggebers fehlt.">>)
       \o If(absent("items"), <<"Kein Prüfling angegeben.">>)
       \o If(absent("measurementResults"), <<"Keine Messergebnisse vorhanden.">>)
       \o If(absent("measuringEquipments"),
             <<"Keine Messeinrichtungen/Referenznormale angegeben.">>)
       \o If(absent("statements"), <<"Keine Konformitätsaussage vorhanden.">>)

---------------------------------------------------------------------------
(* DCC-JSON inputs of the generator *)

DEmpty == EmptyObj

\* every section filled in
DFull ==
    Obj([coreData |-> Obj([uniqueIdentifier |-> Str(<<"A", "B", "-", "1">>),
                           languageCode |-> Str(<<"e", "n">>),
                           calibrationMark |-> Str(<<"K", "1">>),
                           orderNumber |-> Str(<<"7">>),
                           beginPerformanceDate |-> Str(<<"2", "0", "2", "4">>)]),
         items |-> Arr(<<Obj([name |-> Str(<<"a", "&", "b">>),
                              serialNumber |-> Str(<<"S", "1">>),
                              inventoryNumber |-> Str(<<"I", "2">>),
                              parameter |-> Str(<<"p", "<", "1">>),
                              mediumConditions |->
                                  Arr(<<Obj([name |-> Str(<<"T">>), value |-> Int0(20)])>>)]),
                         Obj([name |-> Str(<<"c">>)])>>),
         accessories |-> Arr(<<Obj([type |-> Str(<<"t">>), description |-> Str(<<"d">>)]),
                               Obj([type |-> Str(<<"u">>), serialNumber |-> Str(<<"S", "3">>)])>>),
         calibrationLaboratory |-> Obj([name |-> Str(<<"L">>), city |-> Str(<<"B">>)]),
         respPersons |-> Arr(<<Obj([name |-> Str(<<"P", "\"">>), role |-> Str(<<"r">>),
                                    isMainSigner |-> Bool(TRUE)])>>),
         customer |-> Obj([name |-> Str(<<"C">>), contactPerson |-> Str(<<"x", ">">>)]),
         statements |-> Arr(<<Obj([name |-> Str(<<"s">>), norm |-> Str(<<"n">>),
                                   conformity |-> Str(<<"p", "a", "s", "s">>)])>>),
         remarks |-> Str(<<"r">>),
         measuringEquipments |-> Arr(<<Obj([name |-> Str(<<"E">>),
                                            certificateNumber |-> Str(<<"9">>),
                                            traceability |-> Str(<<"D">>)])>>),
         measurementResults |->
             Arr(<<Obj([name |-> Str(<<"M">>),
                        method |-> Str(<<"m">>),
                        usedMethods |-> Arr(<<Obj([name |-> Str(<<"u">>)])>>),
                        influenceConditions |->
                            Arr(<<Obj([name |-> Str(<<"T">>), min |-> Int0(18), max |-> Int0(22),
                                       value |-> Int0(20)]),
                                  Obj([name |-> Str(<<"H">>), value |-> Int0(45),
                                       uncertainty |-> Int0(2), unit |-> Str(<<"%">>)]),
                                  Obj([name |-> Str(<<"p">>), min |-> Int0(1)]),
                                  Obj([name |-> Str(<<"q">>), value |-> Int0(0)]),
                                  Obj([name |-> Str(<<"r">>), max |-> Int0(5),
                                       value |-> Int0(3), unit |-> Str(<<"K">>)])>>),
                        results |->
                            Arr(<<Obj([setPoint |-> Int0(10), nominalValue |-> Int0(10),
                                       measuredValue |-> Num(1005, 2),
                                       measuredUnit |-> Str(<<"V">>),
                                       uncertainty |-> Num(1, 2), coverageFactor |-> Int0(2),
                                       deviation |-> Num(5, 2),
                                       allowedDeviation |-> Num(1, 1),
                                       conformity |-> Str(<<"p", "a", "s", "s">>)])>>)]),
                   Obj([results |-> Arr(<<>>)])>>),
         calibrationSOPs |-> Arr(<<Obj([sopNumber |-> Str(<<"S">>)])>>),
         calibrationLocation |-> Obj([name |-> Str(<<"L">>), city |-> Str(<<"B">>)])])

\* what an items[] array rule that matches nothing leaves in the DCC-JSON
DNoItems == Obj([items |-> Arr(<<>>)])

\* an array with a null entry
DNullItem == Obj([items |-> Arr(<<Null>>)])

\* every list with one entry that has no field
DBare ==
    Obj([items |-> Arr(<<EmptyObj>>), accessories |-> Arr(<<EmptyObj>>),
         respPersons |-> Arr(<<EmptyObj>>), statements |-> Arr(<<EmptyObj>>),
         measuringEquipments |-> Arr(<<EmptyObj>>),
         measurementResults |->
             Arr(<<EmptyObj,
                   Obj([usedMethods |-> Arr(<<EmptyObj>>),
                        influenceConditions |-> Arr(<<EmptyObj>>),
                        results |-> Arr(<<EmptyObj>>)])>>),
         calibrationSOPs |-> Arr(<<EmptyObj>>)])

\* every list present and empty, the core data given
DEmptyLists ==
    Obj([coreData |-> Obj([uniqueIdentifier |-> Str(<<"1">>),
                           beginPerformanceDate |-> Str(<<"2">>)]),
         calibrationLaboratory |-> Obj([name |-> Str(<<"L">>)]),
         customer |-> Obj([name |-> Str(<<"C">>)]),
         items |-> Arr(<<Obj([tagNumber |-> Str(<<"9">>)])>>),
         respPersons |-> Arr(<<>>), statements |-> Arr(<<>>),
         measuringEquipments |-> Arr(<<>>), measurementResults |-> Arr(<<>>)])

\* a result point whose quantity values are strings, as a string rule of a
\* mapping profile writes them
DStringQuantity ==
    Obj([measurementResults |->
            Arr(<<Obj([results |->
                          Arr(<<Obj([setPoint |-> Str(<<"<", "x", ">">>),
                                     setPointUnit |-> Str(<<"<", "V", ">">>),
                                     allowedDeviation |-> Str(<<"1", "&", "2">>)])>>)])>>)])

Inputs == <<DEmpty, DFull, DNoItems, DNullItem, DBare, DEmptyLists, DStringQuantity>>

\* the number of generator calls of a behaviour
MaxCalls == 3

---------------------------------------------------------------------------
(* generateDccXml and validateData as a process: one step per section of   *)
(* the certificate.                                                        *)

\* an array that is kept from the call before
KeptArray(old) == old

\* const warnings = []; const lines = [];  (lines 21-22): a new empty array,
\* whatever array old the call before left
NewArray(old) == <<>>

\* app.js lines 583 and 2026: validateData(extractedData) before the certificate
\* is generated from the same data
ValidateData(i) ==
    /\ gpc = "idle"
    /\ calls < MaxCalls
    /\ gpc' = "validated"
    /\ data' = i
    /\ dataWarnings' = validateData(Inputs[i])
    /\ UNCHANGED <<lines, warnings, returned, calls>>
    /\ UNCHANGED <<engineVars, storeVars, appVars>>

\* lines 20-63: the call generateDccXml(data) up to dcc:coreData; after
\* validateData on the same data (app.js 595, 2039) or without it (app.js 837)
GenerateStart(i) ==
    /\ gpc = "idle" \/ (gpc = "validated" /\ i = data)
    /\ calls < MaxCalls
    /\ calls' = calls + 1
    /\ data' = i
    /\ warnings' = NewArray(warnings)
    /\ lines' = NewArray(lines) \o Preamble
    /\ gpc' = "coreData"
    /\ UNCHANGED <<dataWarnings, returned>>
    /\ UNCHANGED <<engineVars, storeVars, appVars>>

\* the section at from pushes out and goes on at to, or raises its error
Section(from, to, out) ==
    /\ gpc = from
    /\ IF out.threw
       THEN gpc' = "threw" /\ UNCHANGED <<lines, warnings>>
       ELSE /\ gpc' = to
            /\ lines' = lines \o out.lines
            /\ warnings' = warnings \o out.warnings
    /\ UNCHANGED <<data, dataWarnings, returned, calls>>
    /\ UNCHANGED <<engineVars, storeVars, appVars>>

GenCoreData == Section("coreData", "items", coreData(Inputs[data]))
GenItems == Section("items", "calibrationLaboratory", items(Inputs[data]))
GenCalibrationLaboratory ==
    Section("calibrationLaboratory", "respPersons", calibrationLaboratory(Inputs[data]))
GenRespPersons == Section("respPersons", "customer", respPersons(Inputs[data]))
GenCustomer == Section("customer", "statements", customer(Inputs[data]))
GenStatements == Section("statements", "measuringEquipments", statements(Inputs[data]))
GenMeasuringEquipments ==
    Section("measuringEquipments", "measurementResults", measuringEquipments(Inputs[data]))
GenMeasurementResults ==
    Section("measurementResults", "comment", measurementResults(Inputs[data]))
GenComment == Section("comment", "return", comment(Inputs[data]))

\* line 815: return { xml: lines.join('\n'), warnings }
GenReturn ==
    /\ gpc = "return"
    /\ gpc' = "done"
    /\ returned' = returned \cup
           {[input |-> data, xml |-> JoinLines(lines), warnings |-> warnings]}
    /\ UNCHANGED <<data, lines, warnings, dataWarnings, calls>>
    /\ UNCHANGED <<engineVars, storeVars, appVars>>

\* the caller has the result (or the error); the next call may start
GenEnd ==
    /\ gpc \in {"done", "threw"}
    /\ gpc' = "idle"
    /\ data' = 0
    /\ dataWarnings' = <<>>
    /\ UNCHANGED <<lines, warnings, returned, calls>>
    /\ UNCHANGED <<engineVars, storeVars, appVars>>

GenNext ==
    \/ \E i \in 1..Len(Inputs) : ValidateData(i)
    \/ \E i \in 1..Len(Inputs) : GenerateStart(i)
    \/ GenCoreData
    \/ GenItems
    \/ GenCalibrationLaboratory
    \/ GenRespPersons
    \/ GenCustomer
    \/ GenStatements
    \/ GenMeasuringEquipments
    \/ GenMeasurementResults
    \/ GenComment
    \/ GenReturn
    \/ GenEnd

GenSpec == Init /\ [][GenNext]_vars

---------------------------------------------------------------------------
(* Properties of the generator *)

\* the tokens of the XML text generated so far
Xml == JoinLines(lines)

\* how many times the token tok stands in the text
Count(toks, tok) == Cardinality({i \in 1..Len(toks) : toks[i] = tok})

\* data.k is absent or an empty list
NoneOf(d, k) == ~Truthy(Prop(d, k)) \/ LengthZero(Prop(d, k))

\* some warning of the list is one of texts
Warns(texts) == \E i \in 1..Len(warnings) : warnings[i] \in texts

\* C5 (as claimed): generateDccXml never throws, whatever DCC-JSON it is given.
C5_NeverThrows == gpc # "threw"

\* C6 (as claimed): the warnings list generateDccXml returns holds a warning
\* for each of the nine conditions that holds for the input.
C6_WarningsComplete ==
    gpc = "done" =>
      LET d == Inputs[data]
      IN /\ ~Truthy(OptProp(Prop(d, "coreData"), "uniqueIdentifier")) =>
              Warns({"Zertifikatsnummer (uniqueIdentifier) fehlt.", "Zertifikatsnummer fehlt."})
         /\ ~Truthy(OptProp(Prop(d, "coreData"), "beginPerformanceDate")) =>
              Warns({"Kalibrierdatum (beginPerformanceDate) fehlt.", "Kalibrierdatum fehlt."})
         /\ ~Truthy(OptProp(Prop(d, "calibrationLaboratory"), "name")) =>
              Warns({"Name des Kalibrierlaboratoriums fehlt."})
         /\ ~Truthy(OptProp(Prop(d, "customer"), "name")) =>
              Warns({"Name des Auftraggebers fehlt."})
         /\ NoneOf(d, "items") => Warns({"Kein Prüfling angegeben."})
         /\ NoneOf(d, "measurementResults") =>
              Warns({"Keine Messergebnisse gefunden.", "Keine Messergebnisse vorhanden."})
         /\ NoneOf(d, "measuringEquipments") =>
              Warns({"Keine Messeinrichtungen/Referenznormale angegeben."})
         /\ NoneOf(d, "statements") => Warns({"Keine Konformitätsaussage vorhanden."})
         /\ Count(Xml, "N/A") > 0 => Warns({"Keine Seriennummer oder Inventarnummer gefunden."})

\* every dcc:measurementResult of the text holds a dcc:result
EachHasResult(toks) ==
    \A i \in 1..Len(toks) :
        toks[i] = "<dcc:measurementResult>" =>
            \E k \in i..Len(toks) :
                /\ toks[k] = "<dcc:result>"
                /\ \A j \in i..k : toks[j] # "</dcc:measurementResult>"

\* C7 (as claimed): the XML of every input holds a dcc:item, a dcc:respPerson
\* and a dcc:measurementResult, and every dcc:measurementResult a dcc:result.
C7_NoEmptyList ==
    gpc = "done" =>
      /\ Count(Xml, "<dcc:item>") >= 1
      /\ Count(Xml, "<dcc:respPerson>") >= 1
      /\ Count(Xml, "<dcc:measurementResult>") >= 1
      /\ EachHasResult(Xml)

\* C8: two calls of generateDccXml with the same input return the same XML
\* text and the same warnings, whatever calls were made before or between.
C8_Deterministic ==
    \A r1, r2 \in returned : r1.input = r2.input => r1 = r2

\* a third call has returned, with the input of the first and after a call
\* with another input that returned other warnings
C8_Witness ==
    /\ gpc = "done" /\ calls = 3 /\ warnings # <<>>
    /\ Cardinality(returned) = 2
    /\ \E r \in returned : r.input # data /\ r.warnings # warnings

\* C10 (as claimed): no character of markup (&, <, >, ") of an input value
\* stands unescaped in the XML.
C10_Escaped ==
    \A i \in 1..Len(lines) : \A j \in 1..Len(lines[i]) :
        lines[i][j] \notin {"&", "<", ">", "\""}

\* the groups of data.measurementResults without a result point: results
\* absent or empty
EmptyGroups(d) ==
    LET mrs == Prop(d, "measurementResults")
    IN IF mrs.t # "arr" THEN {}
       ELSE {i \in 1..Len(mrs.v) : NoneOf(mrs.v[i], "results")}

\* the warnings generateDccXml gives for other conditions: no certificate
\* number, no calibration date, no identification of an item, no responsible
\* person, no measurement results at all
OtherWarnings ==
    {"Zertifikatsnummer (uniqueIdentifier) fehlt.", "Kalibrierdatum (beginPerformanceDate) fehlt.",
     "Keine Seriennummer oder Inventarnummer gefunden.", "Keine verantwortliche Person gefunden.",
     "Keine Messergebnisse gefunden."}

\* every group without a result point has its placeholder result
PlaceholderPerGroup ==
    gpc = "done" => Count(Xml, "Ergebnis") >= Cardinality(EmptyGroups(Inputs[data]))

\* C22 (as claimed): for every group of measurementResults without a result
\* point the XML holds a placeholder "no quantity" result and the warnings
\* list holds a warning for it.
C22_EmptyGroupWarned ==
    (gpc = "done" /\ EmptyGroups(Inputs[data]) # {}) =>
        /\ PlaceholderPerGroup
        /\ \E i \in 1..Len(warnings) : warnings[i] \notin OtherWarnings

\* const items = data.items || [{}], as a sequence
ItemsOf(d) == Entries(Or(Prop(d, "items"), Arr(<<EmptyObj>>)))

\* the positions of the dcc:item start tags in the text
ItemStarts(toks) == {i \in 1..Len(toks) : toks[i] = "<dcc:item>"}

\* the text of the dcc:item that starts at position i, up to its end tag
ItemText(toks, i) ==
    SubSeq(toks, i, CHOOSE k \in i..Len(toks) :
                        /\ toks[k] = "</dcc:item>"
                        /\ \A j \in i..(k - 1) : toks[j] # "</dcc:item>")

\* the dcc:item that starts at position i is the n-th of the text
ItemRank(toks, i) == Cardinality({j \in ItemStarts(toks) : j <= i})

\* C23: every dcc:item of the XML, from items or from accessories, holds at
\* least one dcc:identification; the dcc:item of an input item with none of
\* serialNumber, inventoryNumber, equipmentNumber, testEquipmentNumber and
\* tagNumber holds exactly one identification, the placeholder with issuer
\* "other", the dcc:item of any other input item holds no placeholder, and
\* the warnings list holds one warning per input item without identification.
C23_Identifications ==
    gpc = "done" =>
      LET its == ItemsOf(Inputs[data])
          without == {n \in 1..Len(its) : WithoutId(its[n])}
      IN /\ \A i \in ItemStarts(Xml) :
              /\ Count(ItemText(Xml, i), "<dcc:identification>") >= 1
              /\ ItemRank(Xml, i) \in without =>
                    /\ Count(ItemText(Xml, i), "<dcc:identification>") = 1
                    /\ Count(ItemText(Xml, i), "Kennung") = 1
                    /\ Count(ItemText(Xml, i), "other") = 1
              /\ ItemRank(Xml, i) \in (1..Len(its)) \ without =>
                    Count(ItemText(Xml, i), "Kennung") = 0
         /\ Cardinality(ItemStarts(Xml)) >= Len(its)
         /\ Count(warnings, "Keine Seriennummer oder Inventarnummer gefunden.")
              = Cardinality(without)

\* the XML of the input with an item with two identifications, an item with
\* none and two accessories is complete: four dcc:item, one warning
C23_Witness ==
    /\ gpc = "done" /\ Inputs[data] = DFull
    /\ Cardinality(ItemStarts(Xml)) = 4
    /\ Count(Xml, "Kennung") = 1
    /\ Count(warnings, "Keine Seriennummer oder Inventarnummer gefunden.") = 1

\* the text between the first start tag `<tag>` and its end tag
TextOf(toks, tag) ==
    LET from == CHOOSE i \in 1..Len(toks) :
                    toks[i] = "<" \o tag \o ">" /\ \A j \in 1..(i - 1) : toks[j] # toks[i]
        to == CHOOSE k \in from..Len(toks) :
                    toks[k] = "</" \o tag \o ">" /\ \A j \in from..(k - 1) : toks[j] # toks[k]
    IN SubSeq(toks, from + 1, to - 1)

\* the field of coreData is emitted in the element tag: the sentinel with
\* the warning when the field is absent, else its value without the warning
CoreField(d, field, tag, sentinel, warned, text) ==
    IF ~Truthy(OptProp(Prop(d, "coreData"), field))
    THEN TextOf(Xml, tag) = <<sentinel>> /\ warned
    ELSE TextOf(Xml, tag) = esc(OptProp(Prop(d, "coreData"), field)) /\ ~Warns({text})

\* the warnings list holds a warning other than those given for the
\* certificate number, the calibration date, an item without identification,
\* no responsible person and no measurement results
WarnsBeyond == \E i \in 1..Len(warnings) : warnings[i] \notin OtherWarnings

\* the certificate number and the begin date: sentinel and warning when
\* absent, the value and no warning when present
CoreIdAndBegin ==
    gpc = "done" =>
      /\ CoreField(Inputs[data], "uniqueIdentifier", "dcc:uniqueIdentifier", "UNKNOWN",
                   Warns({"Zertifikatsnummer (uniqueIdentifier) fehlt."}),
                   "Zertifikatsnummer (uniqueIdentifier) fehlt.")
      /\ CoreField(Inputs[data], "beginPerformanceDate", "dcc:beginPerformanceDate",
                   "1970-01-01", Warns({"Kalibrierdatum (beginPerformanceDate) fehlt."}),
                   "Kalibrierdatum (beginPerformanceDate) fehlt.")

\* C24 (as claimed): each of certificate ID, language code, country code,
\* begin and end performance date is emitted as a sentinel placeholder with
\* a warning for the field when it is absent from the input, and as the input
\* value without a warning for it when it is present.
C24_CoreDefaults ==
    gpc = "done" =>
      /\ CoreIdAndBegin
      /\ CoreField(Inputs[data], "languageCode", "dcc:usedLangCodeISO639_1", "de",
                   WarnsBeyond, "")
      /\ CoreField(Inputs[data], "languageCode", "dcc:mandatoryLangCodeISO639_1", "de",
                   WarnsBeyond, "")
      /\ CoreField(Inputs[data], "countryCodeISO3166_1", "dcc:countryCodeISO3166_1", "DE",
                   WarnsBeyond, "")
      /\ CoreField(Inputs[data], "endPerformanceDate", "dcc:endPerformanceDate", "1970-01-01",
                   WarnsBeyond, "")

\* the positions of the start tags `<tag>` in the text
BlockStarts(toks, tag) == {i \in 1..Len(toks) : toks[i] = "<" \o tag \o ">"}

\* the text of the element tag that starts at position i, up to its end tag
BlockText(toks, tag, i) ==
    SubSeq(toks, i, CHOOSE k \in i..Len(toks) :
                        /\ toks[k] = "</" \o tag \o ">"
                        /\ \A j \in i..(k - 1) : toks[j] # toks[k])

\* the element tag that starts at position i is the n-th of the text
BlockRank(toks, tag, i) == Cardinality({j \in BlockStarts(toks, tag) : j <= i})

RECURSIVE ConditionsFrom(_, _)
\* the influence conditions of the groups mrs[i], mrs[i + 1], ... in order
ConditionsFrom(mrs, i) ==
    IF i > Len(mrs) THEN <<>>
    ELSE Entries(Or(Prop(mrs[i], "influenceConditions"), Arr(<<>>))) \o ConditionsFrom(mrs, i + 1)

\* all influence conditions of the input in the order of the XML
ConditionsOf(d) ==
    IF Prop(d, "measurementResults").t = "arr"
    THEN ConditionsFrom(Prop(d, "measurementResults").v, 1)
    ELSE <<>>

\* k is given: neither absent nor null
Given(cond, k) == Prop(cond, k).t \notin {"undef", "null"}

\* the text of one dcc:influenceCondition has the shape its condition asks for
ShapeHolds(text, cond) ==
    IF Given(cond, "min") /\ Given(cond, "max")
    THEN /\ Count(text, "<dcc:quantity>") = 2 /\ Count(text, "<si:real>") = 2
         /\ Count(text, "Minimum") = 1 /\ Count(text, "Maximum") = 1
         /\ Count(text, "<si:expandedUnc>") = 0 /\ Count(text, "<dcc:noQuantity/>") = 0
         /\ BlockText(text, "si:value", CHOOSE i \in BlockStarts(text, "si:value") :
                  BlockRank(text, "si:value", i) = 1)
              = <<"<si:value>">> \o ToStr(Prop(cond, "min")) \o <<"</si:value>">>
         /\ BlockText(text, "si:value", CHOOSE i \in BlockStarts(text, "si:value") :
                  BlockRank(text, "si:value", i) = 2)
              = <<"<si:value>">> \o ToStr(Prop(cond, "max")) \o <<"</si:value>">>
    ELSE IF Given(cond, "value")
    THEN /\ Count(text, "<dcc:quantity>") = 1 /\ Count(text, "<si:real>") = 1
         /\ Count(text, "Minimum") = 0 /\ Count(text, "Maximum") = 0
         /\ Count(text, "<dcc:noQuantity/>") = 0
         /\ TextOf(text, "si:value") = ToStr(Prop(cond, "value"))
         /\ Count(text, "<si:expandedUnc>") = (IF Given(cond, "uncertainty") THEN 1 ELSE 0)
         /\ Given(cond, "uncertainty") =>
                TextOf(text, "si:uncertainty") = ToStr(Prop(cond, "uncertainty"))
    ELSE /\ Count(text, "<dcc:quantity>") = 1 /\ Count(text, "<dcc:noQuantity/>") = 1
         /\ Count(text, "<si:real>") = 0 /\ Count(text, "<si:expandedUnc>") = 0
         /\ Count(text, "Minimum") = 0 /\ Count(text, "Maximum") = 0

\* C25: every influence condition is rendered in exactly one of three
\* shapes: the Minimum / Maximum pair of quantities when min and max are both
\* given (whatever value is), else one quantity with value, with an expanded
\* uncertainty exactly when uncertainty is given, when value is given, else
\* the dcc:noQuantity marker, also for a condition with only one of min and
\* max and no value.
C25_ConditionShapes ==
    gpc = "done" =>
      /\ Cardinality(BlockStarts(Xml, "dcc:influenceCondition")) = Len(ConditionsOf(Inputs[data]))
      /\ \A i \in BlockStarts(Xml, "dcc:influenceCondition") :
            ShapeHolds(BlockText(Xml, "dcc:influenceCondition", i),
                       ConditionsOf(Inputs[data])[BlockRank(Xml, "dcc:influenceCondition", i)])

\* the XML of the input with a condition of each kind is complete: a range
\* (with a value), a value with uncertainty, two values without (one next to
\* a max), and a min alone
C25_Witness ==
    /\ gpc = "done" /\ Inputs[data] = DFull
    /\ Cardinality(BlockStarts(Xml, "dcc:influenceCondition")) = 5
    /\ Count(Xml, "Minimum") = 1 /\ Count(Xml, "Maximum") = 1
    /\ Count(BlockText(Xml, "dcc:influenceConditions",
                        CHOOSE i \in BlockStarts(Xml, "dcc:influenceConditions") : TRUE),
             "<si:expandedUnc>") = 1
    /\ Count(BlockText(Xml, "dcc:influenceConditions",
                        CHOOSE i \in BlockStarts(Xml, "dcc:influenceConditions") : TRUE),
             "<dcc:noQuantity/>") = 1

\* ------------------------------------------------------------------------
\* mapping-store.js: the profiles kept in localStorage
\* ------------------------------------------------------------------------

\* number of operations on the store in one behaviour
MaxOps == 4

\* number of user actions in XML Convert mode in one behaviour
MaxClicks == 4

\* an id that did not come from generateId (a profile written by hand): one
\* beyond the ids generateId returns within the bounds
ExternalId == MaxOps + MaxClicks + 1


\* the values of profile.rootElement ("" is none)
RootElements == {"", "Cal"}

\* the ids of a list of profiles
IdsOf(profiles) == {profiles[i].id : i \in 1..Len(profiles)}

\* generateId(): 'mp-' + Date.now() in base 36 + '-' + six random digits; the
\* n-th call is taken to return an id no earlier call returned, named n
generateId(n) == n + 1

\* a stored list never matches: findIndex always answers -1
NotFound(profiles, id) == 0

\* profiles.findIndex(p => p.id === profile.id), counting from 1 (0: not found)
findIndex(profiles, id) ==
    IF id \in IdsOf(profiles)
    THEN CHOOSE i \in 1..Len(profiles) :
             /\ profiles[i].id = id
             /\ \A j \in 1..(i - 1) : profiles[j].id # id
    ELSE 0

\* saveProfile, lines 434-440: the id and the two time stamps of the profile
Completed(prof, n, time) ==
    [prof EXCEPT !.id = IF @ = 0 THEN generateId(n) ELSE @,
                    !.updatedAt = time,
                    !.createdAt = IF @ = 0 THEN time ELSE @]

\* saveProfile, lines 442-449: the list written back to localStorage
saveProfile(profiles, prof) ==
    IF findIndex(profiles, prof.id) >= 1
    THEN [profiles EXCEPT ![findIndex(profiles, prof.id)] = prof]
    ELSE Append(profiles, prof)

\* deleteProfile: getAllProfiles().filter(p => p.id !== id)
IdIsNot(id, p) == p.id # id
deleteProfile(profiles, id) ==
    IF Len(profiles) = 0 THEN profiles
    ELSE LET Keep(p) == IdIsNot(id, p) IN SelectSeq(profiles, Keep)

\* the null that getProfile and detectProfileForXml return for no profile
NoProfile == [id |-> 0]

\* getProfile: the stored profile of that id, or null
getProfile(profiles, id) ==
    IF findIndex(profiles, id) >= 1 THEN profiles[findIndex(profiles, id)]
    ELSE NoProfile

\* the ids and the time stamps that occur within the bounds
AllIds == 0..ExternalId
AllTimes == 0..(MaxOps + MaxClicks + 1)

\* every profile and every import file that can occur within the bounds
AllProfiles ==
    [id : AllIds, rootElement : RootElements, createdAt : AllTimes,
     updatedAt : {0}]
AllImportFiles ==
    [mappings : BOOLEAN, id : AllIds, rootElement : RootElements,
     createdAt : {0}, updatedAt : {0}]

\* the profiles a caller hands to saveProfile: without id, with the id of a
\* stored profile (and its createdAt, as the editor hands it back) or with an
\* id the store does not know; updatedAt is overwritten whatever it was
SaveInputs ==
    {[id |-> i, rootElement |-> r, createdAt |-> c, updatedAt |-> 0] :
        i \in {0, ExternalId} \cup IdsOf(stored), r \in RootElements, c \in {0}}
    \cup {[stored[k] EXCEPT !.rootElement = r, !.updatedAt = 0] :
             k \in 1..Len(stored), r \in RootElements}

\* the files handed to importProfile: JSON with or without a mappings array,
\* carrying no id or the id of a stored profile (an export of it)
ImportFiles ==
    {[mappings |-> m, id |-> i, rootElement |-> r, createdAt |-> 0, updatedAt |-> 0] :
        m \in BOOLEAN, i \in {0} \cup IdsOf(stored), r \in RootElements}

\* importProfile, lines 541-545 after the check of line 537: the profile of
\* the file under a new id, stamped, as it goes to saveProfile
Imported(file, n, time) ==
    [id |-> generateId(n), rootElement |-> file.rootElement,
     createdAt |-> time, updatedAt |-> time]

\* what saveProfile(p) does to the store
Saves(p) ==
    /\ stored' = saveProfile(stored, Completed(p, issued, now))
    /\ issued' = IF p.id = 0 THEN issued + 1 ELSE issued
    /\ now' = now + 1
    /\ lastOp' = [name |-> "save", profile |-> p]
    /\ before' = stored

\* what the onload of importProfile(f) does to the store
Imports(f) ==
    /\ IF f.mappings
       THEN /\ stored' = saveProfile(stored,
                             Completed(Imported(f, issued, now), issued + 1, now))
            /\ issued' = issued + 1
       ELSE UNCHANGED <<stored, issued>>
    /\ now' = now + 1
    /\ lastOp' = [name |-> IF f.mappings THEN "import" ELSE "rejected", profile |-> f]
    /\ before' = stored

\* what deleteProfile(id) does to the store
Deletes(id) ==
    /\ stored' = deleteProfile(stored, id)
    /\ now' = now + 1
    /\ lastOp' = [name |-> "delete", profile |-> [id |-> id]]
    /\ before' = stored
    /\ UNCHANGED issued

\* saveProfile(profile)
SaveProfile(p) ==
    /\ now <= MaxOps
    /\ p \in SaveInputs
    /\ Saves(p)
    /\ UNCHANGED <<engineVars, genVars, appVars>>

\* importProfile(file), the onload of its reader
ImportProfile(f) ==
    /\ now <= MaxOps
    /\ f \in ImportFiles
    /\ Imports(f)
    /\ UNCHANGED <<engineVars, genVars, appVars>>

\* deleteProfile(id)
DeleteProfile(id) ==
    /\ now <= MaxOps
    /\ id \in IdsOf(stored) \cup {ExternalId}
    /\ Deletes(id)
    /\ UNCHANGED <<engineVars, genVars, appVars>>

StoreNext ==
    \/ \E p \in AllProfiles : SaveProfile(p)
    \/ \E f \in AllImportFiles : ImportProfile(f)
    \/ \E id \in AllIds : DeleteProfile(id)

StoreSpec == Init /\ [][StoreNext]_vars

XmlFiles == <<[root |-> "Cal"], [root |-> "Report"]>>

\* detectProfileForXml, lines 497-501 of the store: the first stored profile
\* whose rootElement is the root of the file, or null; the profiles of the
\* model carry no schemaNamespace, so the loop of lines 490-494 returns nothing
detectProfileForXml(profiles, file) ==
    IF \E i \in 1..Len(profiles) :
           profiles[i].rootElement # "" /\ profiles[i].rootElement = file.root
    THEN profiles[CHOOSE i \in 1..Len(profiles) :
             /\ profiles[i].rootElement # "" /\ profiles[i].rootElement = file.root
             /\ \A j \in 1..(i - 1) :
                   profiles[j].rootElement = "" \/ profiles[j].rootElement # file.root]
    ELSE NoProfile

\* updateXmlConvertButton: btn.disabled = !(xmlContent && selectedProfileId)
updateXmlConvertButton(content, id) == ~(content # 0 /\ id # 0)

\* select.value = v: the select takes the value of one of its options, which
\* refreshXmlProfileSelect made from the stored profiles, else ''
OptionValue(profiles, v) == IF v \in IdsOf(profiles) THEN v ELSE 0

\* updateXmlProfileInfo: selectedProfileId becomes the value of the select, or
\* '' when that is empty or names no stored profile
updateXmlProfileInfo(profiles, v) ==
    IF v = 0 \/ getProfile(profiles, v) = NoProfile THEN 0 ELSE v

\* every read that can be started within the bounds
AllReads == [file : 1..Len(XmlFiles), started : 0..MaxClicks]

\* handleXmlFile(file), lines 749-755 and 773: the drop zone is shown only
\* while no file is chosen; the read is started and onload comes later
ChooseFile(f) ==
    /\ clicks < MaxClicks
    /\ xmlFile = 0
    /\ xmlFile' = f
    /\ reading' = reading \cup {[file |-> f, started |-> clicks]}
    /\ clicks' = clicks + 1
    /\ UNCHANGED <<xmlContent, selectedProfileId, select, convertDisabled>>
    /\ UNCHANGED <<engineVars, genVars, storeVars>>

\* reader.onload of handleXmlFile, lines 757-772, for a read that was started
ReadComplete(r) ==
    /\ r \in reading
    /\ reading' = reading \ {r}
    /\ xmlContent' = r.file
    /\ IF detectProfileForXml(stored, XmlFiles[r.file]) # NoProfile
       THEN /\ select' = OptionValue(stored,
                             detectProfileForXml(stored, XmlFiles[r.file]).id)
            /\ selectedProfileId' = updateXmlProfileInfo(stored, select')
       ELSE UNCHANGED <<select, selectedProfileId>>
    /\ convertDisabled' = updateXmlConvertButton(xmlContent', selectedProfileId')
    /\ UNCHANGED <<xmlFile, clicks>>
    /\ UNCHANGED <<engineVars, genVars, storeVars>>

\* click on #xml-btn-remove-file, lines 797-809; the reader is not aborted
RemoveFile ==
    /\ clicks < MaxClicks
    /\ xmlFile # 0
    /\ xmlFile' = 0
    /\ xmlContent' = 0
    /\ convertDisabled' = TRUE
    /\ clicks' = clicks + 1
    /\ UNCHANGED <<selectedProfileId, select, reading>>
    /\ UNCHANGED <<engineVars, genVars, storeVars>>

\* change of #xml-profile-select to the option v, line 669
SelectProfile(v) ==
    /\ clicks < MaxClicks
    /\ v \in IdsOf(stored) \cup {0}
    /\ v # select
    /\ select' = v
    /\ selectedProfileId' = updateXmlProfileInfo(stored, v)
    /\ convertDisabled' = updateXmlConvertButton(xmlContent, selectedProfileId')
    /\ clicks' = clicks + 1
    /\ UNCHANGED <<xmlFile, xmlContent, reading>>
    /\ UNCHANGED <<engineVars, genVars, storeVars>>

\* click on #xml-btn-delete-profile, confirmed, lines 695-701, with the
\* refreshXmlProfileSelect it ends with
DeleteSelected ==
    /\ clicks < MaxClicks
    /\ selectedProfileId # 0
    /\ Deletes(selectedProfileId)
    /\ select' = 0
    /\ selectedProfileId' = updateXmlProfileInfo(stored', select')
    /\ convertDisabled' = updateXmlConvertButton(xmlContent, selectedProfileId')
    /\ clicks' = clicks + 1
    /\ UNCHANGED <<xmlFile, xmlContent, reading>>
    /\ UNCHANGED <<engineVars, genVars>>

\* change of #xml-import-profile-input, lines 676-688: importProfile(f), then
\* the new profile is selected, or the alert of the catch
ImportAndSelect(f) ==
    /\ clicks < MaxClicks
    /\ f \in ImportFiles
    /\ Imports(f)
    /\ IF f.mappings
       THEN /\ select' = OptionValue(stored', stored'[Len(stored')].id)
            /\ selectedProfileId' = updateXmlProfileInfo(stored', select')
            /\ convertDisabled' = updateXmlConvertButton(xmlContent, selectedProfileId')
       ELSE UNCHANGED <<select, selectedProfileId, convertDisabled>>
    /\ clicks' = clicks + 1
    /\ UNCHANGED <<xmlFile, xmlContent, reading>>
    /\ UNCHANGED <<engineVars, genVars>>

AppNext ==
    \/ \E f \in 1..Len(XmlFiles) : ChooseFile(f)
    \/ \E r \in AllReads : ReadComplete(r)
    \/ RemoveFile
    \/ \E v \in AllIds : SelectProfile(v)
    \/ DeleteSelected
    \/ \E f \in AllImportFiles : ImportAndSelect(f)

AppSpec == Init /\ [][AppNext]_vars

\* C30: the Convert button is enabled only while a file is chosen, its text
\* is loaded and a profile is selected; while no file is chosen, xmlContent
\* is empty and the button is disabled, also when a read that was started
\* before the file was removed completes
C30_ConvertEnabled ==
    /\ ~convertDisabled => xmlFile # 0 /\ xmlContent # 0 /\ selectedProfileId # 0
    /\ xmlFile = 0 => xmlContent = 0 /\ convertDisabled

\* the button follows the two variables it is computed from: it is enabled
\* only while xmlContent is not empty and a stored profile is selected
ButtonFollowsState ==
    ~convertDisabled =>
        /\ xmlContent # 0
        /\ selectedProfileId \in IdsOf(stored)

====
